---------------------------- MODULE Spec2Model ----------------------------
(***************************************************************************)
(* Model of the finance-software repository: the categorizer-ai-service    *)
(* (Flask application app.py).  Text is modelled as a sequence of          *)
(* one-character strings, so that lower-casing, the regular-expression     *)
(* substitution, splitting, joining and the substring tests of the code    *)
(* are computed character by character.  A confidence is an exact fraction *)
(* [num, den]; the scores of the keyword path are multiples of 1/2 divided *)
(* by a keyword count, and every comparison the code makes on them gives   *)
(* the same answer on the fraction as on the float.                        *)
(***************************************************************************)
EXTENDS Integers, Sequences, FiniteSets, TLC

----------------------------------------------------------------------------
(* Characters and Python string primitives                                  *)

UpperCase ==
  <<"A","B","C","D","E","F","G","H","I","J","K","L","M",
    "N","O","P","Q","R","S","T","U","V","W","X","Y","Z">>

LowerCase ==
  <<"a","b","c","d","e","f","g","h","i","j","k","l","m",
    "n","o","p","q","r","s","t","u","v","w","x","y","z">>

\* the whitespace characters of str.split() and of \s that the inputs use
Whitespace == {" ", "\t"}

\* [a-zA-Z] of the regular expression in clean_text
IsAsciiLetter(c) == \E i \in DOMAIN LowerCase : c = LowerCase[i] \/ c = UpperCase[i]

\* str.lower() on one character
lower_char(c) ==
  IF \E i \in DOMAIN UpperCase : c = UpperCase[i]
  THEN LowerCase[CHOOSE i \in DOMAIN UpperCase : c = UpperCase[i]]
  ELSE c

\* str.lower()
lower(text) == [i \in 1..Len(text) |-> lower_char(text[i])]

\* re.sub(r'[^a-zA-Z\s]', ' ', text)
re_sub_non_letters(text) ==
  [i \in 1..Len(text) |->
     IF IsAsciiLetter(text[i]) \/ text[i] \in Whitespace THEN text[i] ELSE " "]

\* str.split(): the maximal runs of non-whitespace characters, in order
RECURSIVE split_from(_, _, _)
split_from(text, i, cur) ==
  IF i > Len(text)
  THEN IF cur = <<>> THEN <<>> ELSE <<cur>>
  ELSE IF text[i] \in Whitespace
       THEN (IF cur = <<>> THEN <<>> ELSE <<cur>>) \o split_from(text, i + 1, <<>>)
       ELSE split_from(text, i + 1, Append(cur, text[i]))

split(text) == split_from(text, 1, <<>>)

\* ' '.join(words)
RECURSIVE join(_)
join(words) ==
  IF words = <<>> THEN <<>>
  ELSE IF Len(words) = 1 THEN words[1]
  ELSE words[1] \o <<" ">> \o join(Tail(words))

\* Python's  needle in hay  on strings
Contains(needle, hay) ==
  \E i \in 0..(Len(hay) - Len(needle)) :
     \A j \in 1..Len(needle) : hay[i + j] = needle[j]

----------------------------------------------------------------------------
(* Python values that reach the service as a description                    *)

\* a str, by its characters
Str(chars) == [kind |-> "str", val |-> chars]

\* None (JSON null)
NoneValue == [kind |-> "none", val |-> <<>>]

\* an int, by its decimal digits
IntValue(digits) == [kind |-> "int", val |-> digits]

\* truth value of a Python value:  not text  is  ~Truthy(text)
Truthy(v) ==
  CASE v.kind = "none" -> FALSE
    [] v.kind = "str"  -> v.val # <<>>
    [] v.kind = "int"  -> v.val # <<"0">>

----------------------------------------------------------------------------
(* Confidences                                                              *)

Frac(n, d) == [num |-> n, den |-> d]

FracLess(a, b) == a.num * b.den < b.num * a.den

FracEq(a, b) == a.num * b.den = b.num * a.den

\* the literal 0.0
ZERO_CONFIDENCE == Frac(0, 1)

\* the literal 0.3 of  ml_confidence > 0.3
ML_THRESHOLD == Frac(3, 10)

\* the literal 0.1 of  confidence < 0.1
KEYWORD_FLOOR == Frac(1, 10)

----------------------------------------------------------------------------
(* The lexicon, in the insertion order of the dict                          *)

CATEGORY_KEYWORDS == <<
  [category |-> "Makanan & Minuman", keywords |-> <<
     <<"a","l","f","a","m","a","r","t">>,  \* alfamart
     <<"a","y","a","m">>,  \* ayam
     <<"b","a","k","s","o">>,  \* bakso
     <<"b","r","e","a","d","t","a","l","k">>,  \* breadtalk
     <<"b","u","r","g","e","r">>,  \* burger
     <<"c","a","f","e">>,  \* cafe
     <<"c","o","f","f","e","e">>,  \* coffee
     <<"d","u","n","k","i","n">>,  \* dunkin
     <<"d","r","i","n","k">>,  \* drink
     <<"e","s"," ","k","r","i","m">>,  \* es krim
     <<"f","o","o","d">>,  \* food
     <<"g","a","d","o","-","g","a","d","o">>,  \* gado-gado
     <<"g","a","l","o","n">>,  \* galon
     <<"g","r","o","c","e","r","y">>,  \* grocery
     <<"i","c","e"," ","c","r","e","a","m">>,  \* ice cream
     <<"i","n","d","o","m","a","r","e","t">>,  \* indomaret
     <<"j",".","c","o">>,  \* j.co
     <<"j","a","j","a","n","a","n">>,  \* jajanan
     <<"j","u","i","c","e">>,  \* juice
     <<"k","a","t","e","r","i","n","g">>,  \* katering
     <<"k","f","c">>,  \* kfc
     <<"k","o","p","i">>,  \* kopi
     <<"m","a","k","a","n">>,  \* makan
     <<"m","a","k","a","n"," ","m","a","l","a","m">>,  \* makan malam
     <<"m","a","k","a","n"," ","s","i","a","n","g">>,  \* makan siang
     <<"m","c","d">>,  \* mcd
     <<"m","c","d","o","n","a","l","d">>,  \* mcdonald
     <<"m","i","n","u","m">>,  \* minum
     <<"n","a","s","i">>,  \* nasi
     <<"p","a","s","a","r">>,  \* pasar
     <<"p","i","z","z","a">>,  \* pizza
     <<"r","e","n","d","a","n","g">>,  \* rendang
     <<"r","e","s","t","o","r","a","n">>,  \* restoran
     <<"r","e","s","t","a","u","r","a","n","t">>,  \* restaurant
     <<"s","a","r","a","p","a","n">>,  \* sarapan
     <<"s","n","a","c","k">>,  \* snack
     <<"s","o","t","o">>,  \* soto
     <<"s","t","a","r","b","u","c","k","s">>,  \* starbucks
     <<"s","u","p","e","r","m","a","r","k","e","t">>,  \* supermarket
     <<"t","e","a">>,  \* tea
     <<"t","e","h">>,  \* teh
     <<"w","a","r","t","e","g">>,  \* warteg
     <<"w","a","r","u","n","g">>   \* warung
  >>],
  [category |-> "Transportasi", keywords |-> <<
     <<"a","n","g","k","o","t">>,  \* angkot
     <<"a","n","g","k","u","t","a","n">>,  \* angkutan
     <<"b","a","n">>,  \* ban
     <<"b","a","n","d","a","r","a">>,  \* bandara
     <<"B","B","M">>,  \* BBM
     <<"b","e","n","g","k","e","l">>,  \* bengkel
     <<"b","e","n","s","i","n">>,  \* bensin
     <<"b","l","u","e"," ","b","i","r","d">>,  \* blue bird
     <<"b","o","o","k","i","n","g">>,  \* booking
     <<"b","u","s">>,  \* bus
     <<"e","x","p","r","e","s","s">>,  \* express
     <<"f","l","i","g","h","t">>,  \* flight
     <<"g","o","j","e","k">>,  \* gojek
     <<"g","r","a","b">>,  \* grab
     <<"g","r","a","b"," ","b","i","k","e">>,  \* grab bike
     <<"g","r","a","b"," ","c","a","r">>,  \* grab car
     <<"k","e","r","e","t","a">>,  \* kereta
     <<"K","R","L">>,  \* KRL
     <<"L","R","T">>,  \* LRT
     <<"m","o","b","i","l">>,  \* mobil
     <<"m","o","t","o","r">>,  \* motor
     <<"M","R","T">>,  \* MRT
     <<"o","j","e","k">>,  \* ojek
     <<"o","l","i">>,  \* oli
     <<"p","a","r","k","i","r">>,  \* parkir
     <<"p","e","l","a","b","u","h","a","n">>,  \* pelabuhan
     <<"p","e","r","t","a","m","a","x">>,  \* pertamax
     <<"p","e","r","t","a","m","i","n","a">>,  \* pertamina
     <<"p","e","s","a","w","a","t">>,  \* pesawat
     <<"r","a","i","l","w","a","y">>,  \* railway
     <<"s","e","r","v","i","c","e">>,  \* service
     <<"s","h","e","l","l">>,  \* shell
     <<"S","I","M">>,  \* SIM
     <<"s","o","l","a","r">>,  \* solar
     <<"s","p","b","u">>,  \* spbu
     <<"s","t","a","s","i","u","n">>,  \* stasiun
     <<"S","T","N","K">>,  \* STNK
     <<"t","a","x","i">>,  \* taxi
     <<"t","i","k","e","t">>,  \* tiket
     <<"t","o","l">>,  \* tol
     <<"t","r","a","i","n">>,  \* train
     <<"t","r","a","n","s","p","o","r","t">>,  \* transport
     <<"t","r","a","v","e","l">>,  \* travel
     <<"u","b","e","r">>,  \* uber
     <<"e","-","m","o","n","e","y">>,  \* e-money
     <<"e","-","t","o","l","l">>   \* e-toll
  >>],
  [category |-> "Tagihan", keywords |-> <<
     <<"a","i","r">>,  \* air
     <<"a","n","g","s","u","r","a","n">>,  \* angsuran
     <<"a","s","u","r","a","n","s","i">>,  \* asuransi
     <<"b","a","y","a","r">>,  \* bayar
     <<"b","i","l","l">>,  \* bill
     <<"b","p","j","s">>,  \* bpjs
     <<"c","i","c","i","l","a","n">>,  \* cicilan
     <<"d","i","s","n","e","y","+">>,  \* disney+
     <<"h","b","o">>,  \* hbo
     <<"i","n","d","i","h","o","m","e">>,  \* indihome
     <<"i","n","d","o","s","a","t">>,  \* indosat
     <<"i","n","s","u","r","a","n","c","e">>,  \* insurance
     <<"i","n","t","e","r","n","e","t">>,  \* internet
     <<"i","u","r","a","n">>,  \* iuran
     <<"k","e","a","m","a","n","a","n">>,  \* keamanan
     <<"K","P","R">>,  \* KPR
     <<"k","r","e","d","i","t">>,  \* kredit
     <<"l","i","s","t","r","i","k">>,  \* listrik
     <<"p","a","m">>,  \* pam
     <<"p","a","j","a","k">>,  \* pajak
     <<"p","a","k","e","t"," ","d","a","t","a">>,  \* paket data
     <<"p","a","s","c","a","b","a","y","a","r">>,  \* pascabayar
     <<"p","i","n","j","a","m","a","n">>,  \* pinjaman
     <<"p","l","n">>,  \* pln
     <<"p","u","l","s","a">>,  \* pulsa
     <<"R","W">>,  \* RW
     <<"R","T">>,  \* RT
     <<"s","a","m","p","a","h">>,  \* sampah
     <<"s","m","a","r","t","f","r","e","n">>,  \* smartfren
     <<"t","a","g","i","h","a","n">>,  \* tagihan
     <<"t","a","x">>,  \* tax
     <<"t","e","l","k","o","m">>,  \* telkom
     <<"t","e","l","k","o","m","s","e","l">>,  \* telkomsel
     <<"t","h","r","e","e">>,  \* three
     <<"t","o","k","e","n"," ","l","i","s","t","r","i","k">>,  \* token listrik
     <<"v","i","d","i","o">>,  \* vidio
     <<"w","i","f","i">>,  \* wifi
     <<"x","l">>,  \* xl
     <<"I","P","L">>   \* IPL
  >>],
  [category |-> "Belanja", keywords |-> <<
     <<"b","a","j","u">>,  \* baju
     <<"b","e","l","a","n","j","a">>,  \* belanja
     <<"b","e","l","i">>,  \* beli
     <<"b","l","i","b","l","i">>,  \* blibli
     <<"b","u","k","a","l","a","p","a","k">>,  \* bukalapak
     <<"c","e","l","a","n","a">>,  \* celana
     <<"c","h","a","r","g","e","r">>,  \* charger
     <<"d","e","t","e","r","g","e","n">>,  \* detergen
     <<"e","l","e","k","t","r","o","n","i","k">>,  \* elektronik
     <<"e","l","e","c","t","r","o","n","i","c","s">>,  \* electronics
     <<"f","a","s","h","i","o","n">>,  \* fashion
     <<"f","u","r","n","i","t","u","r","e">>,  \* furniture
     <<"g","a","d","g","e","t">>,  \* gadget
     <<"h","a","n","d","p","h","o","n","e">>,  \* handphone
     <<"h","o","u","s","e","h","o","l","d">>,  \* household
     <<"k","a","b","e","l">>,  \* kabel
     <<"k","o","s","m","e","t","i","k">>,  \* kosmetik
     <<"l","a","p","t","o","p">>,  \* laptop
     <<"l","a","z","a","d","a">>,  \* lazada
     <<"m","a","k","e","u","p">>,  \* makeup
     <<"m","a","l","l">>,  \* mall
     <<"m","a","r","k","e","t">>,  \* market
     <<"o","l","e","h","-","o","l","e","h">>,  \* oleh-oleh
     <<"p","a","k","a","i","a","n">>,  \* pakaian
     <<"p","a","k","a","n"," ","h","e","w","a","n">>,  \* pakan hewan
     <<"p","a","m","p","e","r","s">>,  \* pampers
     <<"p","e","c","a","h"," ","b","e","l","a","h">>,  \* pecah belah
     <<"p","e","r","a","b","o","t","a","n">>,  \* perabotan
     <<"p","e","t"," ","f","o","o","d">>,  \* pet food
     <<"p","o","p","o","k">>,  \* popok
     <<"s","a","b","u","n">>,  \* sabun
     <<"s","e","p","a","t","u">>,  \* sepatu
     <<"s","h","a","m","p","o","o">>,  \* shampoo
     <<"s","h","o","p","e","e">>,  \* shopee
     <<"s","h","o","p","p","i","n","g">>,  \* shopping
     <<"s","k","i","n","c","a","r","e">>,  \* skincare
     <<"s","t","o","r","e">>,  \* store
     <<"t","a","s">>,  \* tas
     <<"t","o","k","o">>,  \* toko
     <<"t","o","k","o","p","e","d","i","a">>,  \* tokopedia
     <<"z","a","l","o","r","a">>   \* zalora
  >>],
  [category |-> "Hiburan", keywords |-> <<
     <<"b","i","l","l","i","a","r","d">>,  \* billiard
     <<"b","i","o","s","k","o","p">>,  \* bioskop
     <<"b","o","w","l","i","n","g">>,  \* bowling
     <<"c","i","n","e","m","a">>,  \* cinema
     <<"c","o","n","c","e","r","t">>,  \* concert
     <<"d","u","f","a","n">>,  \* dufan
     <<"f","e","s","t","i","v","a","l">>,  \* festival
     <<"f","i","l","m">>,  \* film
     <<"f","i","t","n","e","s","s">>,  \* fitness
     <<"g","a","m","e">>,  \* game
     <<"g","a","m","i","n","g">>,  \* gaming
     <<"g","y","m">>,  \* gym
     <<"h","o","b","i">>,  \* hobi
     <<"h","o","l","i","d","a","y">>,  \* holiday
     <<"h","o","t","e","l">>,  \* hotel
     <<"k","a","r","a","o","k","e">>,  \* karaoke
     <<"k","o","n","s","e","r">>,  \* konser
     <<"k","t","v">>,  \* ktv
     <<"l","a","n","g","g","a","n","a","n"," ","g","a","m","e">>,  \* langganan game
     <<"l","i","b","u","r","a","n">>,  \* liburan
     <<"m","o","v","i","e">>,  \* movie
     <<"n","e","t","f","l","i","x">>,  \* netflix
     <<"o","l","a","h","r","a","g","a">>,  \* olahraga
     <<"p","s","4">>,  \* ps4
     <<"p","s","5">>,  \* ps5
     <<"r","e","k","r","e","a","s","i">>,  \* rekreasi
     <<"s","p","o","t","i","f","y">>,  \* spotify
     <<"s","p","o","r","t">>,  \* sport
     <<"s","t","a","y","c","a","t","i","o","n">>,  \* staycation
     <<"s","t","e","a","m">>,  \* steam
     <<"t","a","m","a","n"," ","b","e","r","m","a","i","n">>,  \* taman bermain
     <<"t","i","k","e","t">>,  \* tiket
     <<"t","r","a","v","e","l">>,  \* travel
     <<"v","a","c","a","t","i","o","n">>,  \* vacation
     <<"w","i","s","a","t","a">>,  \* wisata
     <<"x","b","o","x">>,  \* xbox
     <<"y","o","u","t","u","b","e">>   \* youtube
  >>],
  [category |-> "Kesehatan", keywords |-> <<
     <<"a","p","o","t","i","k">>,  \* apotik
     <<"c","e","n","t","u","r","y">>,  \* century
     <<"c","h","e","c","k","u","p">>,  \* checkup
     <<"d","e","n","t","a","l">>,  \* dental
     <<"d","o","k","t","e","r">>,  \* dokter
     <<"g","i","g","i">>,  \* gigi
     <<"g","u","a","r","d","i","a","n">>,  \* guardian
     <<"i","m","u","n","i","s","a","s","i">>,  \* imunisasi
     <<"k","a","c","a","m","a","t","a">>,  \* kacamata
     <<"k","a","n","d","u","n","g","a","n">>,  \* kandungan
     <<"k","e","h","a","m","i","l","a","n">>,  \* kehamilan
     <<"k","i","m","i","a"," ","f","a","r","m","a">>,  \* kimia farma
     <<"k","l","i","n","i","k">>,  \* klinik
     <<"l","a","b">>,  \* lab
     <<"l","a","b","o","r","a","t","o","r","i","u","m">>,  \* laboratorium
     <<"m","a","t","a">>,  \* mata
     <<"m","e","d","i","c","a","l">>,  \* medical
     <<"m","e","d","i","c","i","n","e">>,  \* medicine
     <<"o","b","a","t">>,  \* obat
     <<"p","h","a","r","m","a","c","y">>,  \* pharmacy
     <<"p","s","i","k","i","a","t","e","r">>,  \* psikiater
     <<"p","s","i","k","o","l","o","g">>,  \* psikolog
     <<"r","o","n","t","g","e","n">>,  \* rontgen
     <<"r","s">>,  \* rs
     <<"r","u","m","a","h"," ","s","a","k","i","t">>,  \* rumah sakit
     <<"s","u","p","l","e","m","e","n">>,  \* suplemen
     <<"t","e","r","a","p","i">>,  \* terapi
     <<"t","h","e","r","a","p","y">>,  \* therapy
     <<"u","s","g">>,  \* usg
     <<"v","a","k","s","i","n">>,  \* vaksin
     <<"v","i","t","a","m","i","n">>,  \* vitamin
     <<"g","l","a","s","s","e","s">>   \* glasses
  >>],
  [category |-> "Pendidikan", keywords |-> <<
     <<"a","l","a","t"," ","t","u","l","i","s">>,  \* alat tulis
     <<"b","i","m","b","e","l">>,  \* bimbel
     <<"b","i","m","b","i","n","g","a","n"," ","b","e","l","a","j","a","r">>,  \* bimbingan belajar
     <<"b","o","o","k">>,  \* book
     <<"b","o","o","t","c","a","m","p">>,  \* bootcamp
     <<"b","u","k","u">>,  \* buku
     <<"c","e","r","t","i","f","i","c","a","t","i","o","n">>,  \* certification
     <<"c","o","u","r","s","e">>,  \* course
     <<"e","x","a","m">>,  \* exam
     <<"k","a","m","p","u","s">>,  \* kampus
     <<"k","e","l","u","l","u","s","a","n">>,  \* kelulusan
     <<"k","u","l","i","a","h">>,  \* kuliah
     <<"k","u","r","s","u","s">>,  \* kursus
     <<"l","e","s">>,  \* les
     <<"p","e","n","d","a","f","t","a","r","a","n"," ","s","e","k","o","l","a","h">>,  \* pendaftaran sekolah
     <<"p","e","n","e","l","i","t","i","a","n">>,  \* penelitian
     <<"r","e","s","e","a","r","c","h">>,  \* research
     <<"s","e","k","o","l","a","h">>,  \* sekolah
     <<"s","e","m","i","n","a","r">>,  \* seminar
     <<"s","e","m","e","s","t","e","r">>,  \* semester
     <<"s","k","r","i","p","s","i">>,  \* skripsi
     <<"s","p","p">>,  \* spp
     <<"s","t","a","t","i","o","n","e","r","y">>,  \* stationery
     <<"t","h","e","s","i","s">>,  \* thesis
     <<"t","r","a","i","n","i","n","g">>,  \* training
     <<"u","a","n","g"," ","s","e","k","o","l","a","h">>,  \* uang sekolah
     <<"u","j","i","a","n">>,  \* ujian
     <<"u","n","i","v","e","r","s","i","t","a","s">>,  \* universitas
     <<"w","e","b","i","n","a","r">>,  \* webinar
     <<"w","o","r","k","s","h","o","p">>   \* workshop
  >>],
  [category |-> "Investasi", keywords |-> <<
     <<"a","j","a","i","b">>,  \* ajaib
     <<"a","s","u","r","a","n","s","i"," ","j","i","w","a">>,  \* asuransi jiwa
     <<"b","a","r","e","k","s","a">>,  \* bareksa
     <<"b","i","t","c","o","i","n">>,  \* bitcoin
     <<"b","o","n","d">>,  \* bond
     <<"b","r","o","k","e","r">>,  \* broker
     <<"c","r","y","p","t","o">>,  \* crypto
     <<"d","a","n","a"," ","d","a","r","u","r","a","t">>,  \* dana darurat
     <<"d","e","p","o","s","i","t">>,  \* deposit
     <<"e","m","e","r","g","e","n","c","y"," ","f","u","n","d">>,  \* emergency fund
     <<"e","m","a","s">>,  \* emas
     <<"e","t","h","e","r","e","u","m">>,  \* ethereum
     <<"f","i","n","t","e","c","h">>,  \* fintech
     <<"g","o","l","d">>,  \* gold
     <<"i","n","d","o","d","a","x">>,  \* indodax
     <<"i","n","v","e","s","t","a","s","i">>,  \* investasi
     <<"i","n","v","e","s","t","m","e","n","t">>,  \* investment
     <<"l","i","f","e"," ","i","n","s","u","r","a","n","c","e">>,  \* life insurance
     <<"m","u","t","u","a","l"," ","f","u","n","d">>,  \* mutual fund
     <<"o","b","l","i","g","a","s","i">>,  \* obligasi
     <<"p","2","p"," ","l","e","n","d","i","n","g">>,  \* p2p lending
     <<"p","l","u","a","n","g">>,  \* pluang
     <<"R","D","N">>,  \* RDN
     <<"r","e","k","s","a","d","a","n","a">>,  \* reksadana
     <<"s","a","h","a","m">>,  \* saham
     <<"s","a","v","i","n","g">>,  \* saving
     <<"s","e","k","u","r","i","t","a","s">>,  \* sekuritas
     <<"s","t","o","c","k">>,  \* stock
     <<"t","a","b","u","n","g","a","n">>,  \* tabungan
     <<"t","a","n","a","m","d","u","i","t">>,  \* tanamduit
     <<"t","r","a","d","i","n","g">>   \* trading
  >>],
  [category |-> "Lainnya", keywords |-> <<
     <<"a","d","m","i","n","i","s","t","r","a","s","i">>,  \* administrasi
     <<"a","m","a","l">>,  \* amal
     <<"d","o","n","a","s","i">>,  \* donasi
     <<"d","e","n","d","a">>,  \* denda
     <<"h","a","d","i","a","h">>,  \* hadiah
     <<"i","n","f","a","q">>,  \* infaq
     <<"k","a","d","o">>,  \* kado
     <<"n","o","t","a","r","i","s">>,  \* notaris
     <<"p","a","t","u","n","g","a","n">>,  \* patungan
     <<"p","e","r","b","a","i","k","a","n">>,  \* perbaikan
     <<"r","e","n","o","v","a","s","i">>,  \* renovasi
     <<"s","e","d","e","k","a","h">>,  \* sedekah
     <<"s","e","r","v","i","s">>,  \* servis
     <<"s","u","m","b","a","n","g","a","n">>,  \* sumbangan
     <<"t","r","a","n","s","f","e","r">>,  \* transfer
     <<"u","a","n","g"," ","d","u","k","a">>,  \* uang duka
     <<"z","a","k","a","t">>,  \* zakat
     <<"b","i","a","y","a"," ","t","a","k"," ","t","e","r","d","u","g","a">>   \* biaya tak terduga
  >>]
>>

\* the keys of CATEGORY_KEYWORDS, in insertion order
CategoryNames == [i \in DOMAIN CATEGORY_KEYWORDS |-> CATEGORY_KEYWORDS[i].category]

\* the catch-all label the code returns by name
LAINNYA == "Lainnya"

----------------------------------------------------------------------------
(* clean_text and the keyword path of categorize_transaction                *)

\* the value of a one-element set; Bind({ e(x) : x \in {v} }) is e(v) with v
\* evaluated once
Bind(S) == CHOOSE x \in S : TRUE

\* faulty variant of clean_text: the whitespace is not collapsed
clean_text_without_collapse(text) ==
  IF ~Truthy(text) THEN [raised |-> FALSE, text |-> <<>>]
  ELSE IF text.kind # "str" THEN [raised |-> TRUE, text |-> <<>>]
  ELSE [raised |-> FALSE, text |-> re_sub_non_letters(lower(text.val))]

\* clean_text(text): the text, or raised when .lower() is called on a
\* value that is not a str
clean_text(text) ==
  IF ~Truthy(text) THEN [raised |-> FALSE, text |-> <<>>]
  ELSE IF text.kind # "str" THEN [raised |-> TRUE, text |-> <<>>]
  ELSE [raised |-> FALSE,
        text |-> join(split(re_sub_non_letters(lower(text.val))))]

\* keyword_clean = clean_text(keyword) for every keyword of the lexicon
KEYWORDS_CLEAN ==
  [c \in DOMAIN CATEGORY_KEYWORDS |->
     [k \in DOMAIN CATEGORY_KEYWORDS[c].keywords |->
        clean_text(Str(CATEGORY_KEYWORDS[c].keywords[k])).text]]

\* faulty variant of keyword_contribution:  if  in place of  elif, so that a
\* keyword found in the description is counted as exact and as partial
keyword_contribution_twice(keyword_clean, cleaned_desc, words) ==
  (IF Contains(keyword_clean, cleaned_desc) THEN 2 ELSE 0)
  + (IF \E w \in DOMAIN words :
          Contains(words[w], keyword_clean) \/ Contains(keyword_clean, words[w])
     THEN 1 ELSE 0)

\* one pass of the inner loop, in halves: 2 for  score += 1, 1 for score += 0.5
keyword_contribution(keyword_clean, cleaned_desc, words) ==
    IF Contains(keyword_clean, cleaned_desc) THEN 2
    ELSE IF \E w \in DOMAIN words :
               Contains(words[w], keyword_clean) \/ Contains(keyword_clean, words[w])
         THEN 1
         ELSE 0

\* the inner loop  for keyword in keywords  from keyword k on, in halves
RECURSIVE keyword_score(_, _, _, _)
keyword_score(keywords, k, cleaned_desc, words) ==
  IF k > Len(keywords) THEN 0
  ELSE keyword_contribution(keywords[k], cleaned_desc, words)
         + keyword_score(keywords, k + 1, cleaned_desc, words)

\* faulty variant of category_scores: the catch-all category is left out of
\* the scoring
RECURSIVE category_scores_without_catch_all(_, _, _)
category_scores_without_catch_all(c, cleaned_desc, words) ==
  IF c > Len(CATEGORY_KEYWORDS) THEN <<>>
  ELSE (IF Len(CATEGORY_KEYWORDS[c].keywords) > 0
           /\ CATEGORY_KEYWORDS[c].category # "Lainnya"
        THEN <<[category |-> CATEGORY_KEYWORDS[c].category,
                score |-> Frac(keyword_score(KEYWORDS_CLEAN[c], 1, cleaned_desc, words),
                               2 * Len(CATEGORY_KEYWORDS[c].keywords))]>>
        ELSE <<>>)
       \o category_scores_without_catch_all(c + 1, cleaned_desc, words)

\* faulty variant of category_scores: the score is not divided by the
\* number of keywords
RECURSIVE category_scores_unnormalized(_, _, _)
category_scores_unnormalized(c, cleaned_desc, words) ==
  IF c > Len(CATEGORY_KEYWORDS) THEN <<>>
  ELSE (IF Len(CATEGORY_KEYWORDS[c].keywords) > 0
        THEN <<[category |-> CATEGORY_KEYWORDS[c].category,
                score |-> Frac(keyword_score(KEYWORDS_CLEAN[c], 1, cleaned_desc, words),
                               2)]>>
        ELSE <<>>)
       \o category_scores_unnormalized(c + 1, cleaned_desc, words)

\* the outer loop: category_scores as the list of its items in insertion
\* order; a category with no keyword gets no entry
RECURSIVE category_scores(_, _, _)
category_scores(c, cleaned_desc, words) ==
  IF c > Len(CATEGORY_KEYWORDS) THEN <<>>
  ELSE LET category == CATEGORY_KEYWORDS[c].category
           total_keywords == Len(CATEGORY_KEYWORDS[c].keywords)
       IN  (IF total_keywords > 0
            THEN <<[category |-> category,
                    score |-> Frac(keyword_score(KEYWORDS_CLEAN[c], 1, cleaned_desc, words),
                                   2 * total_keywords)]>>
            ELSE <<>>)
           \o category_scores(c + 1, cleaned_desc, words)

\* max(category_scores, key=category_scores.get): the first item with the
\* greatest score
best_category(scores) ==
  scores[CHOOSE i \in DOMAIN scores :
           /\ \A j \in DOMAIN scores : ~FracLess(scores[i].score, scores[j].score)
           /\ \A j \in 1..(i - 1) : FracLess(scores[j].score, scores[i].score)]

\* faulty variant of keyword_result: below the floor the confidence is reset
\* to 0.0
keyword_result_reset(scores) ==
  IF scores # <<>>
  THEN Bind({ IF FracLess(best.score, KEYWORD_FLOOR)
              THEN [raised |-> FALSE, category |-> LAINNYA,
                    confidence |-> ZERO_CONFIDENCE]
              ELSE [raised |-> FALSE, category |-> best.category,
                    confidence |-> best.score]
              : best \in {best_category(scores)} })
  ELSE [raised |-> FALSE, category |-> LAINNYA, confidence |-> ZERO_CONFIDENCE]

\* lines 239-251: the result from category_scores
keyword_result(scores) ==
  IF scores # <<>>
  THEN Bind({ IF FracLess(best.score, KEYWORD_FLOOR)
              THEN [raised |-> FALSE, category |-> LAINNYA, confidence |-> best.score]
              ELSE [raised |-> FALSE, category |-> best.category,
                    confidence |-> best.score]
              : best \in {best_category(scores)} })
  ELSE [raised |-> FALSE, category |-> LAINNYA, confidence |-> ZERO_CONFIDENCE]

\* lines 213-251 of categorize_transaction, the keyword fallback: what it
\* returns, or that clean_text raised
keyword_path(description) ==
  Bind({ IF cleaned.raised
         THEN [raised |-> TRUE, category |-> "None", confidence |-> ZERO_CONFIDENCE]
         ELSE Bind({ keyword_result(scores) :
                       scores \in { category_scores(1, cleaned.text, words) :
                                      words \in {split(cleaned.text)} } })
         : cleaned \in {clean_text(description)} })

----------------------------------------------------------------------------
(* Bounds and inputs                                                        *)

\* a description is at most MaxParts fragments of Vocabulary, space-separated
MaxParts == 2

\* a batch has at most MaxBatch transactions
MaxBatch == 2

\* fragments a description is built from: lexicon keywords and phrases,
\* single letters (which partial-match many keywords), upper case, digits
\* and punctuation
Vocabulary ==
  << <<"m","a","k","a","n"," ","s","i","a","n","g">>,
     <<"d","i"," ","w","a","r","t","e","g">>,
     <<"b","a","k","s","o">>,
     <<"a">>,
     <<"s">>,
     <<"R","S","-","1","2","3","!">> >>

RECURSIVE Phrases(_)
Phrases(n) ==
  IF n = 0 THEN {<<>>}
  ELSE Phrases(n - 1) \cup
       { IF p = <<>> THEN Vocabulary[v] ELSE p \o <<" ">> \o Vocabulary[v] :
           p \in Phrases(n - 1) \ {<<>>}, v \in DOMAIN Vocabulary }
       \cup { Vocabulary[v] : v \in DOMAIN Vocabulary }

\* the values a request can carry as description
Descriptions ==
  { Str(p) : p \in Phrases(MaxParts) }
    \cup {NoneValue, IntValue(<<"0">>), IntValue(<<"5">>)}

\* descriptions of the transactions of a batch
BatchDescriptions ==
  { Str(<<>>), Str(Vocabulary[3]), Str(Vocabulary[4]), Str(Vocabulary[5]),
    IntValue(<<"5">>) }

\* keyword_path on every description of the model: it reads no state, so
\* its result for a description is computed once
KEYWORD_PATH == { [description |-> d, result |-> keyword_path(d)] : d \in Descriptions }

keyword_path_of(description) ==
  (CHOOSE e \in KEYWORD_PATH : e.description = description).result

----------------------------------------------------------------------------
(* The statistical model: the pickled scikit-learn objects are not code of  *)
(* the repository; what one call of transform / predict / predict_proba     *)
(* does is an input of the step.                                            *)

NONE == "None"
LOADED == "loaded"

\* labels a trained model may predict (a label of the training data)
MLLabels == {"Transportasi", ""}

\* max(probabilities), around the 0.3 threshold
MLConfidences == {Frac(250, 1000), Frac(300, 1000), Frac(301, 1000), Frac(1000, 1000)}

\* one call: the step that throws, if any, else the prediction
MLOutcomes ==
  { [fails |-> f, prediction |-> NONE, confidence |-> ZERO_CONFIDENCE] :
      f \in {"transform", "predict", "predict_proba"} }
    \cup
  { [fails |-> "none", prediction |-> l, confidence |-> c] :
      l \in MLLabels, c \in MLConfidences }

\* the outcomes used for the transactions of a batch
BatchOutcomes ==
  { [fails |-> "predict", prediction |-> NONE, confidence |-> ZERO_CONFIDENCE],
    [fails |-> "none", prediction |-> "Transportasi", confidence |-> Frac(300, 1000)],
    [fails |-> "none", prediction |-> "Transportasi", confidence |-> Frac(1000, 1000)] }

----------------------------------------------------------------------------
(* State                                                                    *)

VARIABLES
  model,           \* global model: NONE or LOADED
  vectorizer,      \* global vectorizer: NONE or LOADED
  model_metadata,  \* global model_metadata: NONE or LOADED
  pc,              \* "startup", "serving" (waiting for a request), "responded"
  load_returned,   \* what load_models returned: "not called", "True", "False"
  request,         \* the request being answered
  response,        \* the response to it
  calls,           \* the calls of categorize_transaction made for it, in order
  raw_text,        \* the value the normalizers are applied to
  normalized,      \* what clean_text and the two preprocess_text made of it
  threads          \* the /categorize requests being handled concurrently:
                   \* for each server thread, where it is and its locals

----------------------------------------------------------------------------
(* State outside the categorizer service: the training run of train.py      *)

VARIABLES
  models_dir,      \* the files of models/: for each, "absent" or what wrote it
  training         \* the training run: its input, and what train_model returned

\* the desktop application
VARIABLES
  client,          \* the APIClient: self.token and the session's Authorization header
  client_call,     \* the last call of an APIClient method, and how it ended
  app,             \* MainWindow: current_user, its dashboard, the signals handled
  log_call,        \* the last call of FinanceLogger._mask_sensitive_data
  widget           \* the TransactionListWidget: buttons, cooldown timer, workers

vars == <<model, vectorizer, model_metadata, pc, load_returned, request, response, calls,
          raw_text, normalized, threads, models_dir, training,
          client, client_call, app, log_call, widget>>

\* the variables of the API client and of the windows that share it
client_vars == <<client, client_call, app>>

\* the variable of the logger
logger_vars == <<log_call>>

\* the variable of the transaction list
widget_vars == <<widget>>

\* the variables of the training run
train_vars == <<models_dir, training>>

\* the variables the categorizer service does not touch
other_vars == <<train_vars, client_vars, logger_vars, widget_vars>>

\* the variables of the categorizer service
service_vars ==
  <<model, vectorizer, model_metadata, pc, load_returned, request, response, calls,
    raw_text, normalized, threads>>

\* models/ before any training run
NoArtifacts == [vectorizer |-> "absent", model |-> "absent", metadata |-> "absent"]

\* train_model has not been called
NoTraining == [returned |-> "not run"]

\* no header Authorization in the session
NoHeader == [kind |-> "absent", val |-> <<>>]

\* APIClient.__init__: no token, the default headers only
FreshClient == [token |-> NoneValue, authorization |-> NoHeader]

\* no APIClient method was called yet
NoCall == [op |-> "none"]

\* MainWindow.__init__: no user, no dashboard
AppStart == [current_user |-> "None", dashboard |-> "none", handled |-> "none"]

\* _mask_sensitive_data was not called yet
NoLogCall == [called |-> FALSE]

\* no TransactionListWidget was constructed
NoWidget == [constructed |-> FALSE]

\* no training run was started
TrainIdle ==
  /\ models_dir = NoArtifacts
  /\ training = NoTraining

\* the desktop application was not started
DesktopIdle ==
  /\ client = FreshClient
  /\ client_call = NoCall
  /\ app = AppStart
  /\ log_call = NoLogCall
  /\ widget = NoWidget

\* nothing outside the service has happened
OutsideIdle ==
  /\ TrainIdle
  /\ DesktopIdle

----------------------------------------------------------------------------
(* load_models                                                              *)

\* the state of one file of models/: os.path.exists is false ("absent"),
\* pickle.load succeeds ("ok") or open / pickle.load throws ("corrupt")
FileStates == {"absent", "ok", "corrupt"}

ModelFiles == [vectorizer : FileStates, model : FileStates, metadata : FileStates]

\* load_models(): the globals it leaves and the value it returns
load_models(files) ==
  LET raised_v == files.vectorizer = "corrupt"
      v == IF files.vectorizer = "ok" THEN LOADED ELSE vectorizer
      raised_m == raised_v \/ files.model = "corrupt"
      m == IF ~raised_v /\ files.model = "ok" THEN LOADED ELSE model
      raised_d == raised_m \/ files.metadata = "corrupt"
      d == IF ~raised_m /\ files.metadata = "ok" THEN LOADED ELSE model_metadata
  IN  [vectorizer |-> v, model |-> m, model_metadata |-> d,
       returned |-> IF raised_d THEN "False"
                    ELSE IF m # NONE /\ v # NONE THEN "True" ELSE "False"]

----------------------------------------------------------------------------
(* preprocess_text and predict_with_ml_model                                *)

\* pd.isna(text)
isna(text) == text.kind = "none"

\* str(text)
str(text) == IF text.kind = "none" THEN <<"N","o","n","e">> ELSE text.val

\* preprocess_text(text) of app.py
preprocess_text(text) ==
  IF isna(text) \/ ~Truthy(text) THEN [raised |-> FALSE, text |-> <<>>]
  ELSE [raised |-> FALSE, text |-> join(split(lower(str(text))))]

\* faulty variant of train_preprocess_text: the text is not lower-cased
train_preprocess_text_without_lower(text) ==
  IF isna(text) THEN [raised |-> FALSE, text |-> <<>>]
  ELSE [raised |-> FALSE, text |-> join(split(str(text)))]

\* preprocess_text(text) of train.py, applied to the description column
\* before the vectorizer is fitted
train_preprocess_text(text) ==
  IF isna(text) THEN [raised |-> FALSE, text |-> <<>>]
  ELSE [raised |-> FALSE, text |-> join(split(lower(str(text))))]

\* the Unavailable outcome:  return None, 0.0
Unavailable == [category |-> NONE, confidence |-> ZERO_CONFIDENCE, raised |-> FALSE]

\* faulty variant of predict_with_ml_model: predict_proba is called outside
\* the try block
predict_with_ml_model_uncaught(description, outcome) ==
  IF model = NONE \/ vectorizer = NONE THEN Unavailable
  ELSE IF preprocess_text(description).raised
          \/ outcome.fails \in {"transform", "predict"}
  THEN Unavailable
  ELSE IF outcome.fails = "predict_proba"
  THEN [category |-> NONE, confidence |-> ZERO_CONFIDENCE, raised |-> TRUE]
  ELSE [category |-> outcome.prediction, confidence |-> outcome.confidence,
        raised |-> FALSE]

\* predict_with_ml_model(description); outcome is what the loaded objects do
predict_with_ml_model(description, outcome) ==
  IF model = NONE \/ vectorizer = NONE THEN Unavailable
  ELSE LET desc_clean == preprocess_text(description) IN
         IF desc_clean.raised \/ outcome.fails # "none"
         THEN Unavailable                                \* except Exception
         ELSE [category |-> outcome.prediction, confidence |-> outcome.confidence,
               raised |-> FALSE]

----------------------------------------------------------------------------
(* categorize_transaction                                                   *)

\* truth value of ml_category
CategoryTruthy(category) == category # NONE /\ category # ""

\* faulty variant of empty_description:  description is None
empty_description_none_only(description) == description.kind = "none"

\* line 203:  not description
empty_description(description) == ~Truthy(description)

\* faulty variant of empty_result:  return None, 0.0
empty_result_none == [category |-> NONE, confidence |-> ZERO_CONFIDENCE]

\* line 204:  return "Lainnya", 0.0
empty_result == [category |-> LAINNYA, confidence |-> ZERO_CONFIDENCE]

\* line 207:  model is not None and vectorizer is not None
ml_enabled == model # NONE /\ vectorizer # NONE

\* faulty variant of ml_accepted:  ml_confidence >= 0.3
ml_accepted_at_threshold(ml) ==
  CategoryTruthy(ml.category) /\ ~FracLess(ml.confidence, ML_THRESHOLD)

\* faulty variant of ml_accepted:  ml_confidence > 0.3  alone
ml_accepted_without_category(ml) == FracLess(ML_THRESHOLD, ml.confidence)

\* line 209:  ml_category and ml_confidence > 0.3
ml_accepted(ml) == CategoryTruthy(ml.category) /\ FracLess(ML_THRESHOLD, ml.confidence)

\* categorize_transaction(description): what it returns (category,
\* confidence) or that it raised, with the path that produced the result
\* (via), the result of the statistical path (ml) and how often each path
\* was entered
categorize_transaction(description, outcome) ==
  IF empty_description(description)
  THEN [description |-> description, raised |-> FALSE,
        category |-> empty_result.category, confidence |-> empty_result.confidence,
        via |-> "empty", ml |-> Unavailable, ml_calls |-> 0, keyword_calls |-> 0]
  ELSE
    LET ml_calls == IF ml_enabled THEN 1 ELSE 0 IN
    Bind({
      IF ml.raised
      THEN [description |-> description, raised |-> TRUE, category |-> NONE,
            confidence |-> ZERO_CONFIDENCE, via |-> "raised", ml |-> ml,
            ml_calls |-> ml_calls, keyword_calls |-> 0]
      ELSE IF ml_enabled /\ ml_accepted(ml)
      THEN [description |-> description, raised |-> FALSE,
            category |-> ml.category, confidence |-> ml.confidence,
            via |-> "ml_model", ml |-> ml,
            ml_calls |-> ml_calls, keyword_calls |-> 0]
      ELSE Bind({ [description |-> description, raised |-> kw.raised,
                   category |-> kw.category, confidence |-> kw.confidence,
                   via |-> IF kw.raised THEN "raised" ELSE "keyword_matching",
                   ml |-> ml, ml_calls |-> ml_calls, keyword_calls |-> 1]
                  : kw \in {keyword_path_of(description)} })
      : ml \in {IF ml_enabled THEN predict_with_ml_model(description, outcome)
                             ELSE Unavailable} })

----------------------------------------------------------------------------
(* The HTTP handlers.  The timestamp fields of the responses are left out. *)

\* round(confidence, 3), in thousandths: round-half-even
round3(c) ==
  LET n == c.num * 1000
      q == n \div c.den
      r == n % c.den
  IN  IF 2 * r < c.den THEN q
      ELSE IF 2 * r > c.den THEN q + 1
      ELSE IF q % 2 = 0 THEN q ELSE q + 1

\* the expression of lines 297 and 354
prediction_method(confidence) ==
  IF model # NONE /\ vectorizer # NONE /\ FracLess(ML_THRESHOLD, confidence)
  THEN "ml_model" ELSE "keyword_matching"

ErrorResponse(status, error) == [status |-> status, body |-> [error |-> error]]

\* POST /categorize with the JSON body; for a body that is not JSON
\* request.get_json() raises inside the try block
categorize(body, outcome) ==
  IF body.kind = "unparseable"
  THEN [response |-> ErrorResponse(500, "internal_error"), calls |-> <<>>]
  ELSE IF body.kind # "object" \/ ~body.has_description
  THEN [response |-> ErrorResponse(400, "missing_description"), calls |-> <<>>]
  ELSE Bind({
         IF call.raised
         THEN [response |-> ErrorResponse(500, "internal_error"), calls |-> <<call>>]
         ELSE [response |->
                 [status |-> 200,
                  body |-> [description |-> body.description,
                            predicted_category |-> call.category,
                            confidence |-> round3(call.confidence),
                            prediction_method |-> prediction_method(call.confidence)]],
               calls |-> <<call>>]
         : call \in {categorize_transaction(body.description, outcome)} })

\* the loop of categorize_batch from transaction i on (i counts from 1, the
\* index field from 0); it ends early when categorize_transaction raises
RECURSIVE batch_loop(_, _, _)
batch_loop(transactions, outcomes, i) ==
  IF i > Len(transactions) THEN [raised |-> FALSE, results |-> <<>>, calls |-> <<>>]
  ELSE IF transactions[i].kind # "object" \/ ~transactions[i].has_description
  THEN Bind({ [raised |-> rest.raised,
               results |-> <<[index |-> i - 1, error |-> "invalid_transaction",
                              message |-> "Each transaction must have a description field"]>>
                           \o rest.results,
               calls |-> rest.calls]
              : rest \in {batch_loop(transactions, outcomes, i + 1)} })
  ELSE Bind({
         IF call.raised
         THEN [raised |-> TRUE, results |-> <<>>, calls |-> <<call>>]
         ELSE Bind({ [raised |-> rest.raised,
                      results |-> <<[index |-> i - 1,
                                     description |-> transactions[i].description,
                                     predicted_category |-> call.category,
                                     confidence |-> round3(call.confidence),
                                     prediction_method |->
                                        prediction_method(call.confidence)]>>
                                  \o rest.results,
                      calls |-> <<call>> \o rest.calls]
                     : rest \in {batch_loop(transactions, outcomes, i + 1)} })
         : call \in {categorize_transaction(transactions[i].description, outcomes[i])} })

\* POST /categorize/batch with the JSON body
categorize_batch(body, outcomes) ==
  IF body.kind = "unparseable"
  THEN [response |-> ErrorResponse(500, "internal_error"), calls |-> <<>>]
  ELSE IF body.kind # "object" \/ ~body.has_transactions
  THEN [response |-> ErrorResponse(400, "missing_transactions"), calls |-> <<>>]
  ELSE IF ~body.is_list
  THEN [response |-> ErrorResponse(400, "invalid_format"), calls |-> <<>>]
  ELSE Bind({
         IF loop.raised
         THEN [response |-> ErrorResponse(500, "internal_error"), calls |-> loop.calls]
         ELSE [response |-> [status |-> 200,
                             body |-> [results |-> loop.results,
                                       total_processed |-> Len(loop.results)]],
               calls |-> loop.calls]
         : loop \in {batch_loop(body.transactions, outcomes, 1)} })

\* faulty variant of health_check: the status looks at the model alone
health_check_model_only ==
  [status |-> 200,
   body |-> [status |-> "healthy", service |-> "categorizer-ai-service",
             version |-> "1.0.0",
             ml_model_status |-> IF model # NONE THEN "enabled" ELSE "disabled"]
            @@ (IF model_metadata # NONE
                THEN [model_info |-> [accuracy |-> "metadata.accuracy",
                                      categories |-> "metadata.categories",
                                      trained_at |-> "metadata.trained_at"]]
                ELSE <<>>)]

\* GET /health; the metadata train.py pickles is a non-empty dict, so a
\* loaded model_metadata is truthy
health_check ==
  [status |-> 200,
   body |-> [status |-> "healthy", service |-> "categorizer-ai-service",
             version |-> "1.0.0",
             ml_model_status |-> IF model # NONE /\ vectorizer # NONE
                                 THEN "enabled" ELSE "disabled"]
            @@ (IF model_metadata # NONE
                THEN [model_info |-> [accuracy |-> "metadata.accuracy",
                                      categories |-> "metadata.categories",
                                      trained_at |-> "metadata.trained_at"]]
                ELSE <<>>)]

\* faulty variant of get_category_keywords: the catch-all is not listed
\* among the available categories
get_category_keywords_without_catch_all(category) ==
  IF \E c \in DOMAIN CATEGORY_KEYWORDS : CATEGORY_KEYWORDS[c].category = category
  THEN Bind({ [status |-> 200,
               body |-> [category |-> category,
                         keywords |-> CATEGORY_KEYWORDS[c].keywords,
                         total_keywords |-> Len(CATEGORY_KEYWORDS[c].keywords)]]
              : c \in { x \in DOMAIN CATEGORY_KEYWORDS :
                          CATEGORY_KEYWORDS[x].category = category } })
  ELSE [status |-> 404,
        body |-> [error |-> "category_not_found",
                  available_categories |->
                    SelectSeq(CategoryNames, LAMBDA n : n # LAINNYA)]]

\* GET /keywords/<category>
get_category_keywords(category) ==
  IF \E c \in DOMAIN CATEGORY_KEYWORDS : CATEGORY_KEYWORDS[c].category = category
  THEN Bind({ [status |-> 200,
               body |-> [category |-> category,
                         keywords |-> CATEGORY_KEYWORDS[c].keywords,
                         total_keywords |-> Len(CATEGORY_KEYWORDS[c].keywords)]]
              : c \in { x \in DOMAIN CATEGORY_KEYWORDS :
                          CATEGORY_KEYWORDS[x].category = category } })
  ELSE [status |-> 404,
        body |-> [error |-> "category_not_found",
                  available_categories |-> CategoryNames]]

\* GET /categories:  list(CATEGORY_KEYWORDS.keys()) + ["Lainnya"]
get_categories ==
  Bind({ [status |-> 200,
          body |-> [categories |-> categories,
                    total_categories |-> Len(categories)]]
         : categories \in {CategoryNames \o <<LAINNYA>>} })

----------------------------------------------------------------------------
(* Requests                                                                 *)

NoRequest == [endpoint |-> "none"]
NoResponse == [status |-> 0]

\* no normalizer has been applied to raw_text
NotNormalized == [pass |-> 0]

\* app.run() serves each request in a thread of its own
NumThreads == 2

Threads == 1..NumThreads

\* the adapter has not been called
NoOutcome == [fails |-> "none", prediction |-> NONE, confidence |-> ZERO_CONFIDENCE]

\* a thread that handles no request
IdleThread ==
  [at |-> "idle", description |-> NoneValue, outcome |-> NoOutcome,
   ml |-> Unavailable, category |-> NONE, confidence |-> ZERO_CONFIDENCE,
   response |-> NoResponse]

\* bodies of POST /categorize: not JSON, null, an object without
\* description, an object with one
CategorizeBodies ==
  { [kind |-> "unparseable", has_description |-> FALSE, description |-> NoneValue],
    [kind |-> "null", has_description |-> FALSE, description |-> NoneValue],
    [kind |-> "object", has_description |-> FALSE, description |-> NoneValue] }
    \cup
  { [kind |-> "object", has_description |-> TRUE, description |-> d] : d \in Descriptions }

\* the entries of a transactions array: not an object, an object without
\* description, an object with one
BatchEntries ==
  { [kind |-> "string", has_description |-> FALSE, description |-> NoneValue],
    [kind |-> "object", has_description |-> FALSE, description |-> NoneValue] }
    \cup
  { [kind |-> "object", has_description |-> TRUE, description |-> d] :
      d \in BatchDescriptions }

SeqsUpTo(S, n) == UNION { [1..k -> S] : k \in 0..n }

\* bodies of POST /categorize/batch
BatchBodies ==
  { [kind |-> "unparseable", has_transactions |-> FALSE, is_list |-> FALSE,
     transactions |-> <<>>],
    [kind |-> "null", has_transactions |-> FALSE, is_list |-> FALSE, transactions |-> <<>>],
    [kind |-> "object", has_transactions |-> FALSE, is_list |-> FALSE, transactions |-> <<>>],
    [kind |-> "object", has_transactions |-> TRUE, is_list |-> FALSE, transactions |-> <<>>] }
    \cup
  { [kind |-> "object", has_transactions |-> TRUE, is_list |-> TRUE, transactions |-> t] :
      t \in SeqsUpTo(BatchEntries, MaxBatch) }

\* the <category> segment of GET /keywords/<category>: the categories of
\* the lexicon, an unknown one, and a known one in another letter case
KeywordsPaths ==
  { CategoryNames[c] : c \in DOMAIN CategoryNames }
    \cup {"UnknownCategory", "lainnya"}

----------------------------------------------------------------------------
(* Actions                                                                  *)

\* the module is imported: lines 17-20
Init ==
  /\ model = NONE
  /\ vectorizer = NONE
  /\ model_metadata = NONE
  /\ pc = "startup"
  /\ load_returned = "not called"
  /\ request = NoRequest
  /\ response = NoResponse
  /\ calls = <<>>
  /\ raw_text = NoneValue
  /\ normalized = NotNormalized
  /\ threads = [t \in Threads |-> IdleThread]
  /\ OutsideIdle

\* the __main__ block: load_models() and then app.run()
Startup ==
  /\ pc = "startup"
  /\ \E files \in ModelFiles :
       \E loaded \in {load_models(files)} :
         /\ vectorizer' = loaded.vectorizer
         /\ model' = loaded.model
         /\ model_metadata' = loaded.model_metadata
         /\ load_returned' = loaded.returned
  /\ pc' = "serving"
  /\ UNCHANGED <<request, response, calls, raw_text, normalized, threads, other_vars>>

\* a POST /categorize request is answered
HandleCategorize ==
  /\ pc = "serving"
  /\ \E body \in CategorizeBodies :
       \E outcome \in MLOutcomes :
         \E handled \in {categorize(body, outcome)} :
           /\ request' = [endpoint |-> "/categorize", body |-> body]
           /\ response' = handled.response
           /\ calls' = handled.calls
  /\ pc' = "responded"
  /\ UNCHANGED <<model, vectorizer, model_metadata, load_returned, raw_text, normalized, threads, other_vars>>

\* a POST /categorize/batch request is answered
HandleCategorizeBatch ==
  /\ pc = "serving"
  /\ \E body \in BatchBodies :
       \E outcomes \in [1..Len(body.transactions) -> BatchOutcomes] :
         \E handled \in {categorize_batch(body, outcomes)} :
           /\ request' = [endpoint |-> "/categorize/batch", body |-> body]
           /\ response' = handled.response
           /\ calls' = handled.calls
  /\ pc' = "responded"
  /\ UNCHANGED <<model, vectorizer, model_metadata, load_returned, raw_text, normalized, threads, other_vars>>

\* a GET /health request is answered
HandleHealth ==
  /\ pc = "serving"
  /\ request' = [endpoint |-> "/health"]
  /\ response' = health_check
  /\ calls' = <<>>
  /\ pc' = "responded"
  /\ UNCHANGED <<model, vectorizer, model_metadata, load_returned, raw_text, normalized, threads, other_vars>>

\* a GET /keywords/<category> request is answered
HandleKeywords ==
  /\ pc = "serving"
  /\ \E category \in KeywordsPaths :
       /\ request' = [endpoint |-> "/keywords", category |-> category]
       /\ response' = get_category_keywords(category)
  /\ calls' = <<>>
  /\ pc' = "responded"
  /\ UNCHANGED <<model, vectorizer, model_metadata, load_returned, raw_text, normalized, threads, other_vars>>

\* a GET /categories request is answered
HandleCategories ==
  /\ pc = "serving"
  /\ request' = [endpoint |-> "/categories"]
  /\ response' = get_categories
  /\ calls' = <<>>
  /\ pc' = "responded"
  /\ UNCHANGED <<model, vectorizer, model_metadata, load_returned, raw_text, normalized, threads, other_vars>>

\* the response has gone to the client; the process waits for the next request
SendResponse ==
  /\ pc = "responded"
  /\ pc' = "serving"
  /\ request' = NoRequest
  /\ response' = NoResponse
  /\ calls' = <<>>
  /\ UNCHANGED <<model, vectorizer, model_metadata, load_returned, raw_text, normalized, threads, other_vars>>

Next ==
  \/ Startup
  \/ HandleCategorize
  \/ HandleCategorizeBatch
  \/ HandleHealth
  \/ HandleKeywords
  \/ HandleCategories
  \/ SendResponse

Spec == Init /\ [][Next]_vars

----------------------------------------------------------------------------
(* The normalizers as functions of their input: clean_text of app.py and    *)
(* the preprocess_text of app.py and of train.py read no state, so they are *)
(* applied to every text of a bounded set.                                  *)

\* a text has at most MaxLen characters
MaxLen == 3

\* lower case, upper case, the two whitespace characters, punctuation, a digit
Alphabet == {"a", "B", " ", "\t", "-", "7"}

\* the values the normalizers are applied to
NormalizerInputs ==
  { Str(t) : t \in SeqsUpTo(Alphabet, MaxLen) }
    \cup {NoneValue, IntValue(<<"0">>), IntValue(<<"5">>)}

\* the three normalizers on one value
normalize_all(value) ==
  [clean_text |-> clean_text(value),
   app_preprocess_text |-> preprocess_text(value),
   train_preprocess_text |-> train_preprocess_text(value)]

NormalizerInit ==
  /\ model = NONE
  /\ vectorizer = NONE
  /\ model_metadata = NONE
  /\ pc = "startup"
  /\ load_returned = "not called"
  /\ request = NoRequest
  /\ response = NoResponse
  /\ calls = <<>>
  /\ raw_text \in NormalizerInputs
  /\ normalized = NotNormalized
  /\ threads = [t \in Threads |-> IdleThread]
  /\ OutsideIdle

\* the normalizers are applied to raw_text
Normalize ==
  /\ normalized.pass = 0
  /\ \E out \in {normalize_all(raw_text)} :
       normalized' = [pass |-> 1, original |-> raw_text, out |-> out]
  /\ UNCHANGED <<model, vectorizer, model_metadata, pc, load_returned,
                 request, response, calls, raw_text, threads, other_vars>>

\* clean_text is applied to its own output
NormalizeAgain ==
  /\ normalized.pass = 1
  /\ ~normalized.out.clean_text.raised
  /\ raw_text' = Str(normalized.out.clean_text.text)
  /\ \E out \in {normalize_all(Str(normalized.out.clean_text.text))} :
       normalized' = [pass |-> 2, original |-> normalized.original, out |-> out]
  /\ UNCHANGED <<model, vectorizer, model_metadata, pc, load_returned,
                 request, response, calls, threads, other_vars>>

NormalizerNext == Normalize \/ NormalizeAgain

NormalizerSpec == NormalizerInit /\ [][NormalizerNext]_vars

----------------------------------------------------------------------------
(* Concurrent requests: the handler of POST /categorize and the             *)
(* categorize_transaction it calls, one step per read of the globals, run   *)
(* by NumThreads threads of the server.                                     *)

\* descriptions of the concurrent requests: empty, and one that the keyword
\* path classifies
ConcurrentDescriptions == { Str(<<>>), Str(Vocabulary[4]) }

\* faulty variant of globals_after_predict: a failed prediction drops the model
globals_after_predict_dropping_model(ml) ==
  IF ml.category = NONE THEN <<NONE, vectorizer, model_metadata>>
  ELSE <<model, vectorizer, model_metadata>>

\* the globals after predict_with_ml_model: it declares  global model,
\* vectorizer  and assigns to neither
globals_after_predict(ml) == <<model, vectorizer, model_metadata>>

\* lines 282-291: the body is parsed, it has a description, and
\* categorize_transaction is called with it
ThreadReceive(t) ==
  /\ pc = "serving"
  /\ threads[t].at = "idle"
  /\ \E d \in ConcurrentDescriptions :
       threads' = [threads EXCEPT ![t] = [IdleThread EXCEPT !.at = "line203",
                                                           !.description = d]]
  /\ UNCHANGED <<model, vectorizer, model_metadata, pc, load_returned,
                 request, response, calls, raw_text, normalized, other_vars>>

\* lines 203-204:  if not description: return "Lainnya", 0.0
ThreadCheckDescription(t) ==
  /\ threads[t].at = "line203"
  /\ threads' =
       [threads EXCEPT ![t] =
          IF empty_description(@.description)
          THEN [@ EXCEPT !.at = "line293",
                         !.category = empty_result.category,
                         !.confidence = empty_result.confidence]
          ELSE [@ EXCEPT !.at = "line207"]]
  /\ UNCHANGED <<model, vectorizer, model_metadata, pc, load_returned,
                 request, response, calls, raw_text, normalized, other_vars>>

\* line 207:  if model is not None and vectorizer is not None
ThreadCheckModel(t) ==
  /\ threads[t].at = "line207"
  /\ threads' = [threads EXCEPT ![t].at = IF ml_enabled THEN "line208" ELSE "line214"]
  /\ UNCHANGED <<model, vectorizer, model_metadata, pc, load_returned,
                 request, response, calls, raw_text, normalized, other_vars>>

\* lines 208-211: the adapter is called and its result returned or rejected
ThreadPredict(t) ==
  /\ threads[t].at = "line208"
  /\ \E outcome \in BatchOutcomes :
       \E ml \in {predict_with_ml_model(threads[t].description, outcome)} :
         /\ threads' =
              [threads EXCEPT ![t] =
                 IF ml_accepted(ml)
                 THEN [@ EXCEPT !.at = "line293", !.outcome = outcome, !.ml = ml,
                                !.category = ml.category,
                                !.confidence = ml.confidence]
                 ELSE [@ EXCEPT !.at = "line214", !.outcome = outcome, !.ml = ml]]
         /\ \E globals \in {globals_after_predict(ml)} :
              /\ model' = globals[1]
              /\ vectorizer' = globals[2]
              /\ model_metadata' = globals[3]
  /\ UNCHANGED <<pc, load_returned, request, response, calls, raw_text, normalized, other_vars>>

\* lines 213-251: the keyword path
ThreadKeywords(t) ==
  /\ threads[t].at = "line214"
  /\ \E kw \in {keyword_path_of(threads[t].description)} :
       threads' = [threads EXCEPT ![t] =
                     [@ EXCEPT !.at = IF kw.raised THEN "line305" ELSE "line293",
                               !.category = kw.category,
                               !.confidence = kw.confidence]]
  /\ UNCHANGED <<model, vectorizer, model_metadata, pc, load_returned,
                 request, response, calls, raw_text, normalized, other_vars>>

\* lines 293-303 (or 305-310 after an exception): the response is built
ThreadRespond(t) ==
  /\ threads[t].at \in {"line293", "line305"}
  /\ threads' =
       [threads EXCEPT ![t] =
          [@ EXCEPT !.at = "responded",
                    !.response =
                       IF threads[t].at = "line305"
                       THEN ErrorResponse(500, "internal_error")
                       ELSE [status |-> 200,
                             body |-> [description |-> threads[t].description,
                                       predicted_category |-> threads[t].category,
                                       confidence |-> round3(threads[t].confidence),
                                       prediction_method |->
                                          prediction_method(threads[t].confidence)]]]]
  /\ UNCHANGED <<model, vectorizer, model_metadata, pc, load_returned,
                 request, response, calls, raw_text, normalized, other_vars>>

\* the response has gone to the client; the thread is free again
ThreadDone(t) ==
  /\ threads[t].at = "responded"
  /\ threads' = [threads EXCEPT ![t] = IdleThread]
  /\ UNCHANGED <<model, vectorizer, model_metadata, pc, load_returned,
                 request, response, calls, raw_text, normalized, other_vars>>

ConcurrentNext ==
  \/ Startup
  \/ \E t \in Threads :
       \/ ThreadReceive(t)
       \/ ThreadCheckDescription(t)
       \/ ThreadCheckModel(t)
       \/ ThreadPredict(t)
       \/ ThreadKeywords(t)
       \/ ThreadRespond(t)
       \/ ThreadDone(t)

ConcurrentSpec == Init /\ [][ConcurrentNext]_vars

----------------------------------------------------------------------------
(* The training run of train.py.  pandas and scikit-learn are not code of   *)
(* the repository: what the data file holds and whether fitting succeeds    *)
(* are inputs of the run.                                                   *)

\* a data file has at most MaxRows complete rows
MaxRows == 4

\* line 190:  if len(df) < 4
MIN_SAMPLES == 4

\* the content of an artifact file written by an earlier run, and by this one
DEPLOYED == "deployed"
TRAINED == "trained"

DeployedArtifacts == [vectorizer |-> DEPLOYED, model |-> DEPLOYED, metadata |-> DEPLOYED]

\* one run: the data source asked for, the state of its file, whether the
\* sheet has the columns description and category, whether the description
\* column holds text, the rows with both values and the rows with a missing
\* value, and whether splitting and fitting succeed on that data
TrainingInputs ==
  [data_source : {"excel", "xml", "csv"},
   file : {"missing", "unreadable", "ok"},
   has_columns : BOOLEAN,
   description_type : {"text", "numeric"},
   complete_rows : 0..MaxRows,
   incomplete_rows : 0..1,
   fit : {"ok", "raises"}]

\* the DataFrame a loader returns, by what the run depends on
DataFrame(rows, description_type) ==
  [kind |-> "df", rows |-> rows, description_type |-> description_type]

\* a loader returned None
NoData == [kind |-> "None", rows |-> 0, description_type |-> "text"]

\* load_data_from_excel(file_path): every exception is caught and None returned
load_data_from_excel(input) ==
  IF input.file = "missing" THEN NoData                    \* FileNotFoundError
  ELSE IF input.file = "unreadable" THEN NoData            \* pd.read_excel raises
  ELSE IF ~input.has_columns THEN NoData                   \* ValueError, line 29
  ELSE IF input.complete_rows = 0 THEN NoData              \* ValueError, line 40
  ELSE DataFrame(input.complete_rows, input.description_type)

\* load_data_from_xml(file_path): records with a missing or blank element
\* are skipped; the values are text
load_data_from_xml(input) ==
  IF input.file = "missing" THEN NoData                    \* FileNotFoundError
  ELSE IF input.file = "unreadable" THEN NoData            \* ET.parse raises
  ELSE IF input.complete_rows = 0 THEN NoData              \* ValueError, line 79
  ELSE DataFrame(input.complete_rows, "text")

\* load_training_data(data_source)
load_training_data(input) ==
  IF input.data_source = "excel" THEN load_data_from_excel(input)
  ELSE IF input.data_source = "xml" THEN load_data_from_xml(input)
  ELSE NoData

\* validate_data(df) raises when the .str accessor is used on a column that
\* holds no text
validate_data_raises(df) == df.description_type = "numeric"

\* faulty variant of train_model: the vectorizer is saved before the number
\* of samples is checked
train_model_saving_before_check(input, dir) ==
  Bind({
    IF df.kind = "None" THEN [returned |-> "False", models_dir |-> dir]
    ELSE IF validate_data_raises(df) THEN [returned |-> "raised", models_dir |-> dir]
    ELSE IF df.rows < MIN_SAMPLES
    THEN [returned |-> "False", models_dir |-> [dir EXCEPT !.vectorizer = TRAINED]]
    ELSE IF input.fit = "raises" THEN [returned |-> "raised", models_dir |-> dir]
    ELSE [returned |-> "True",
          models_dir |-> [vectorizer |-> TRAINED, model |-> TRAINED, metadata |-> TRAINED]]
    : df \in {load_training_data(input)} })

\* train_model(data_source) started with models/ as dir: what it returns
\* ("raised" when an exception leaves it) and models/ afterwards
train_model(input, dir) ==
  Bind({
    IF df.kind = "None" THEN [returned |-> "False", models_dir |-> dir]    \* line 176
    ELSE IF validate_data_raises(df) THEN [returned |-> "raised", models_dir |-> dir]
    ELSE IF df.rows < MIN_SAMPLES THEN [returned |-> "False", models_dir |-> dir]
    ELSE IF input.fit = "raises" THEN [returned |-> "raised", models_dir |-> dir]
    ELSE [returned |-> "True",                                             \* 276-305
          models_dir |-> [vectorizer |-> TRAINED, model |-> TRAINED, metadata |-> TRAINED]]
    : df \in {load_training_data(input)} })

TrainInit ==
  /\ model = NONE
  /\ vectorizer = NONE
  /\ model_metadata = NONE
  /\ pc = "startup"
  /\ load_returned = "not called"
  /\ request = NoRequest
  /\ response = NoResponse
  /\ calls = <<>>
  /\ raw_text = NoneValue
  /\ normalized = NotNormalized
  /\ threads = [t \in Threads |-> IdleThread]
  /\ models_dir \in {NoArtifacts, DeployedArtifacts}
  /\ training = NoTraining
  /\ DesktopIdle

\* python train.py: one call of train_model
TrainModel ==
  /\ training.returned = "not run"
  /\ \E input \in TrainingInputs :
       \E run \in {train_model(input, models_dir)} :
         /\ training' = [returned |-> run.returned, input |-> input,
                         before |-> models_dir]
         /\ models_dir' = run.models_dir
  /\ UNCHANGED <<service_vars, client_vars, logger_vars, widget_vars>>

TrainNext == TrainModel

TrainSpec == TrainInit /\ [][TrainNext]_vars

----------------------------------------------------------------------------
(* The API client of the desktop application (src/api/client.py).  The Go   *)
(* backend is not code of the repository: what it answers is an input of    *)
(* every request.                                                           *)

\* the categorizer service and the training run are not running
BackendIdle ==
  /\ model = NONE
  /\ vectorizer = NONE
  /\ model_metadata = NONE
  /\ pc = "startup"
  /\ load_returned = "not called"
  /\ request = NoRequest
  /\ response = NoResponse
  /\ calls = <<>>
  /\ raw_text = NoneValue
  /\ normalized = NotNormalized
  /\ threads = [t \in Threads |-> IdleThread]
  /\ TrainIdle

\* two session tokens
TOKEN_A == Str(<<"a">>)
TOKEN_B == Str(<<"b">>)

\* the values the field "token" of a JSON answer can hold
TokenValues == {TOKEN_A, TOKEN_B, Str(<<>>), NoneValue}

\* the header value  f'Bearer {self.token}'
Bearer(token) == [kind |-> "Bearer", val |-> token.val]

\* an answer without content, or whose JSON has no field "token"
NoBody == [has_token |-> FALSE, token |-> NoneValue]

Bodies == {NoBody} \cup {[has_token |-> TRUE, token |-> t] : t \in TokenValues}

\* what a request can end with: an HTTP response, or an exception of requests
Replies ==
  {[kind |-> "response", status |-> st, body |-> b] :
     st \in {200, 201, 400, 401, 404, 500}, b \in Bodies}
  \cup {[kind |-> k, status |-> 0, body |-> NoBody] : k \in {"ConnectionError", "Timeout"}}

\* line 64:  response.status_code in [200, 201]
IsSuccess(reply) == reply.kind = "response" /\ reply.status \in {200, 201}

\* _make_request(method, endpoint) on client state c, answered by reply: the
\* client afterwards, whether an Exception was raised, the JSON returned
make_request(c, reply) ==
  Bind({ [client |-> sent,
          raised |-> ~IsSuccess(reply),
          result |-> IF IsSuccess(reply) THEN reply.body ELSE NoBody]
         : sent \in {IF Truthy(c.token)
                     THEN [c EXCEPT !.authorization = Bearer(c.token)]
                     ELSE c} })

\* faulty variant of login: a failed request drops the stored token
login_dropping_token_on_failure(c, reply) ==
  Bind({ IF made.raised
         THEN [made EXCEPT !.client.token = NoneValue]
         ELSE IF made.result.has_token
         THEN [made EXCEPT !.client.token = made.result.token]
         ELSE made
         : made \in {make_request(c, reply)} })

\* login(email, password)
login(c, reply) ==
  Bind({ IF made.raised
         THEN made                                           \* the exception leaves login
         ELSE IF made.result.has_token                       \* 'token' in result
         THEN [made EXCEPT !.client.token = made.result.token]
         ELSE made
         : made \in {make_request(c, reply)} })

\* logout(): the request is made only with a truthy token; its exception is
\* caught, and the finally clause clears token and header
logout(c, reply) ==
  IF Truthy(c.token)
  THEN Bind({ [client |-> [token |-> NoneValue, authorization |-> NoHeader],
               raised |-> FALSE,
               result |-> NoBody]
              : made \in {make_request(c, reply)} })
  ELSE [client |-> c, raised |-> FALSE, result |-> NoBody]

\* is_authenticated()
is_authenticated(c) == c.token # NoneValue

\* the record of a call
Call(op, reply, made, before) ==
  [op |-> op, reply |-> reply, raised |-> made.raised, before |-> before]

ClientInit ==
  /\ BackendIdle
  /\ DesktopIdle

ClientLogin ==
  /\ \E reply \in Replies :
       \E made \in {login(client, reply)} :
         /\ client' = made.client
         /\ client_call' = Call("login", reply, made, client)
  /\ UNCHANGED <<service_vars, train_vars, app, logger_vars, widget_vars>>

\* get_transactions, create_transaction, ..., get_dashboard_data
ClientRequest ==
  /\ \E reply \in Replies :
       \E made \in {make_request(client, reply)} :
         /\ client' = made.client
         /\ client_call' = Call("request", reply, made, client)
  /\ UNCHANGED <<service_vars, train_vars, app, logger_vars, widget_vars>>

ClientLogout ==
  /\ \E reply \in Replies :
       \E made \in {logout(client, reply)} :
         /\ client' = made.client
         /\ client_call' = Call("logout", reply, made, client)
  /\ UNCHANGED <<service_vars, train_vars, app, logger_vars, widget_vars>>

ClientNext == ClientLogin \/ ClientRequest \/ ClientLogout

ClientSpec == ClientInit /\ [][ClientNext]_vars

----------------------------------------------------------------------------
(* The windows of the desktop application (main.py, src/ui)                 *)

\* main.py opens UltraSimpleDashboard; DashboardWindow emits the same signal
DashboardKinds == {"UltraSimpleDashboard", "DashboardWindow"}

\* MainWindow.on_logout, the slot of logout_requested
on_logout(state) ==
  [current_user |-> "None", dashboard |-> "closed", handled |-> "logout"]

\* AuthWorker.run calls api_client.login; LoginDialog.on_login_success and
\* MainWindow.on_login_success run when it returned
AppLogin ==
  /\ \E reply \in Replies, kind \in DashboardKinds :
       \E made \in {login(client, reply)} :
         /\ client' = made.client
         /\ client_call' = Call("login", reply, made, client)
         /\ app' = IF made.raised
                   THEN [app EXCEPT !.handled = "login_error"]
                   ELSE [current_user |-> "user", dashboard |-> kind,
                         handled |-> "login"]
  /\ UNCHANGED <<service_vars, train_vars, logger_vars, widget_vars>>

\* the Logout button: UltraSimpleDashboard.logout, or DashboardWindow.logout
\* with the answer to its question
DashboardLogout ==
  /\ app.dashboard \in DashboardKinds
  /\ \E answer \in {"Yes", "No"} :
       app' = IF app.dashboard = "DashboardWindow" /\ answer = "No"
              THEN [app EXCEPT !.handled = "logout_declined"]
              ELSE on_logout(app)
  /\ UNCHANGED <<service_vars, train_vars, client, client_call, logger_vars, widget_vars>>

AppNext == AppLogin \/ DashboardLogout

AppSpec == ClientInit /\ [][AppNext]_vars

----------------------------------------------------------------------------
(* The masking of logged data (src/utils/logger.py)                         *)

\* data is nested at most MaxDepth dicts deep
MaxDepth == 3

\* a dict, by the function from its keys to its values
Dict(items) == [kind |-> "dict", val |-> items]

\* a list, by the sequence of its elements
List(elements) == [kind |-> "list", val |-> elements]

K_NAME == <<"n", "a", "m", "e">>
K_USER == <<"u", "s", "e", "r">>
K_CREDENTIALS == <<"c", "r", "e", "d", "e", "n", "t", "i", "a", "l", "s">>
K_PASSWORD == <<"p", "a", "s", "s", "w", "o", "r", "d">>
K_TOKEN == <<"t", "o", "k", "e", "n">>
K_API_KEY == <<"A", "P", "I", "_", "K", "e", "y">>

LogKeys == {K_NAME, K_USER, K_CREDENTIALS, K_PASSWORD, K_TOKEN, K_API_KEY}

\* "secret123", the password of the tests
SECRET == <<"s", "e", "c", "r", "e", "t", "1", "2", "3">>

\* a value of at most five characters
SHORT_VALUE == <<"a", "b", "c">>

STARS == <<"*", "*", "*">>

\* the values under the keys of the innermost dict
LogLeaves ==
  {Str(SECRET), Str(SHORT_VALUE), IntValue(<<"5">>),
   List(<<Dict([k \in {K_PASSWORD} |-> Str(SECRET)])>>)}

\* the innermost dicts: one or two keys
FlatDicts ==
  UNION {{Dict(items) : items \in [{k1, k2} -> LogLeaves]} : k1 \in LogKeys, k2 \in LogKeys}

\* the dict  {path[1]: {path[2]: ... inner}}
RECURSIVE Nested(_, _)
Nested(path, inner) ==
  IF path = <<>> THEN inner
  ELSE Dict([k \in {Head(path)} |-> Nested(Tail(path), inner)])

\* the sequences of at most n keys
RECURSIVE KeyPaths(_)
KeyPaths(n) ==
  IF n = 0 THEN {<<>>}
  ELSE KeyPaths(n - 1) \cup
       {<<k>> \o path : k \in LogKeys, path \in {p \in KeyPaths(n - 1) : Len(p) = n - 1}}

\* the data handed to the logger
LogData == {Nested(path, inner) : path \in KeyPaths(MaxDepth - 1), inner \in FlatDicts}

\* line 172
sensitive_keys ==
  {<<"p", "a", "s", "s", "w", "o", "r", "d">>, <<"t", "o", "k", "e", "n">>,
   <<"s", "e", "c", "r", "e", "t">>, <<"k", "e", "y">>, <<"a", "u", "t", "h">>,
   <<"c", "r", "e", "d", "e", "n", "t", "i", "a", "l">>}

\* any(sensitive_key in key.lower() for sensitive_key in sensitive_keys)
is_sensitive(key) ==
  \E lowered \in {lower(key)} :
    \E sensitive_key \in sensitive_keys : Contains(sensitive_key, lowered)

\* lines 177-180: what is stored under a sensitive key
masked_value(value) ==
  IF value.kind = "str" /\ Len(value.val) > 0
  THEN IF Len(value.val) > 5
       THEN Str(SubSeq(value.val, 1, 3) \o STARS
                \o SubSeq(value.val, Len(value.val) - 1, Len(value.val)))
       ELSE Str(STARS)
  ELSE Str(STARS)

\* _mask_sensitive_data(data)
RECURSIVE mask_sensitive_data(_)
mask_sensitive_data(data) ==
  IF data.kind # "dict" THEN data
  ELSE Dict([key \in DOMAIN data.val |->
               IF is_sensitive(key) THEN masked_value(data.val[key])
               ELSE IF data.val[key].kind = "dict"
               THEN mask_sensitive_data(data.val[key])
               ELSE data.val[key]])

LoggerInit ==
  /\ BackendIdle
  /\ client = FreshClient
  /\ client_call = NoCall
  /\ app = AppStart
  /\ widget = NoWidget
  /\ log_call \in {[called |-> FALSE, data |-> data, masked |-> data] : data \in LogData}

\* api_request and api_response mask their data before json.dumps
MaskSensitiveData ==
  /\ ~log_call.called
  /\ log_call' = [called |-> TRUE, data |-> log_call.data,
                  masked |-> mask_sensitive_data(log_call.data)]
  /\ UNCHANGED <<service_vars, train_vars, client_vars, widget_vars>>

LoggerNext == MaskSensitiveData

LoggerSpec == LoggerInit /\ [][LoggerNext]_vars

----------------------------------------------------------------------------
(* The transaction list of the desktop application (src/ui/transactions.py). *)
(* The handlers run on the Qt event loop, one at a time; the workers and the *)
(* cooldown timer deliver their signals to it in any order.                  *)

\* at most MaxWorkers delete and recategorize workers run at a time
MaxWorkers == 2

\* the operations whose success handler reloads the list
Mutations == {"create", "delete", "recategorize"}

\* the widget after initUI: the buttons are enabled, the timer is not started
FreshWidget ==
  [constructed |-> TRUE,
   refresh_enabled |-> TRUE,
   refresh_text |-> "Refresh",
   add_enabled |-> TRUE,
   table_enabled |-> TRUE,
   timer_active |-> FALSE,
   loads |-> 0,                                  \* load workers in flight
   workers |-> [op \in Mutations |-> 0],         \* other workers in flight
   dialog_open |-> FALSE,                        \* the modal AddTransactionDialog
   last |-> [handler |-> "initUI", reload |-> "none"]]

\* faulty variant of set_loading: the cooldown timer is not looked at
set_loading_ignoring_cooldown(w, loading) ==
  [w EXCEPT !.add_enabled = ~loading,
            !.refresh_enabled = ~loading,
            !.table_enabled = ~loading,
            !.refresh_text = IF loading THEN "Loading..." ELSE "Refresh"]

\* set_loading(loading)
set_loading(w, loading) ==
  [w EXCEPT !.add_enabled = ~loading,
            !.refresh_enabled = (~loading) /\ (~w.timer_active),
            !.table_enabled = ~loading,
            !.refresh_text = IF loading THEN "Loading..." ELSE "Refresh"]

\* _begin_refresh_cooldown()
begin_refresh_cooldown(w) ==
  IF ~w.timer_active THEN [w EXCEPT !.timer_active = TRUE] ELSE w

\* _end_refresh_cooldown(), the slot of the single-shot timer: the timer is
\* no longer active when it runs
end_refresh_cooldown(w) ==
  IF w.refresh_text # "Loading..."
  THEN [w EXCEPT !.timer_active = FALSE, !.refresh_enabled = TRUE]
  ELSE [w EXCEPT !.timer_active = FALSE]

\* load_transactions() called from handler
load_transactions(w, handler) ==
  IF w.refresh_enabled
  THEN Bind({ [begin_refresh_cooldown(loading) EXCEPT
                 !.last = [handler |-> handler, reload |-> "started"]]
              : loading \in {[set_loading(w, TRUE) EXCEPT !.loads = @ + 1]} })
  ELSE [w EXCEPT !.last = [handler |-> handler, reload |-> "debounced"]]

\* the name of the success handler of a worker
success_handler(op) ==
  CASE op = "create" -> "on_transaction_added"
    [] op = "delete" -> "on_delete_success"
    [] op = "recategorize" -> "on_recategorize_success"

\* TransactionListWidget.__init__ has run: the first load is in flight
WidgetInit ==
  /\ BackendIdle
  /\ client = FreshClient
  /\ client_call = NoCall
  /\ app = AppStart
  /\ log_call = NoLogCall
  /\ widget = load_transactions(FreshWidget, "__init__")

\* the Refresh button or the refresh shortcut
Refresh ==
  /\ ~widget.dialog_open
  /\ widget' = load_transactions(widget, "refresh")
  /\ UNCHANGED <<service_vars, train_vars, client_vars, logger_vars>>

\* on_load_success or on_load_error: the load worker has emitted its signal
LoadFinishes ==
  /\ widget.loads > 0
  /\ widget' = [set_loading([widget EXCEPT !.loads = @ - 1], FALSE) EXCEPT
                  !.last = [handler |-> "on_load_finished", reload |-> "none"]]
  /\ UNCHANGED <<service_vars, train_vars, client_vars, logger_vars>>

\* the cooldown timer fires
CooldownExpires ==
  /\ widget.timer_active
  /\ widget' = [end_refresh_cooldown(widget) EXCEPT
                  !.last = [handler |-> "_end_refresh_cooldown", reload |-> "none"]]
  /\ UNCHANGED <<service_vars, train_vars, client_vars, logger_vars>>

\* delete_transaction or recategorize_transaction from a row of the table,
\* confirmed with Yes
StartWorker ==
  /\ widget.table_enabled
  /\ ~widget.dialog_open
  /\ widget.workers["delete"] + widget.workers["recategorize"] < MaxWorkers
  /\ \E op \in {"delete", "recategorize"} :
       widget' = [widget EXCEPT !.workers[op] = @ + 1,
                                !.last = [handler |-> op, reload |-> "none"]]
  /\ UNCHANGED <<service_vars, train_vars, client_vars, logger_vars>>

\* show_add_dialog: the Add button or its shortcut
ShowAddDialog ==
  /\ widget.add_enabled
  /\ ~widget.dialog_open
  /\ widget' = [widget EXCEPT !.dialog_open = TRUE,
                              !.last = [handler |-> "show_add_dialog", reload |-> "none"]]
  /\ UNCHANGED <<service_vars, train_vars, client_vars, logger_vars>>

\* AddTransactionDialog.save_transaction starts the create worker
SaveTransaction ==
  /\ widget.dialog_open
  /\ widget.workers["create"] = 0
  /\ widget' = [widget EXCEPT !.workers["create"] = 1,
                              !.last = [handler |-> "save_transaction", reload |-> "none"]]
  /\ UNCHANGED <<service_vars, train_vars, client_vars, logger_vars>>

\* the dialog is cancelled
CancelDialog ==
  /\ widget.dialog_open
  /\ widget.workers["create"] = 0
  /\ widget' = [widget EXCEPT !.dialog_open = FALSE,
                              !.last = [handler |-> "reject", reload |-> "none"]]
  /\ UNCHANGED <<service_vars, train_vars, client_vars, logger_vars>>

\* on_transaction_added, on_delete_success, on_recategorize_success: each
\* ends with load_transactions(); the dialog closes after a saved transaction
WorkerSucceeds ==
  /\ \E op \in Mutations :
       /\ widget.workers[op] > 0
       /\ widget' = load_transactions(
                      [widget EXCEPT !.workers[op] = @ - 1,
                                     !.dialog_open = IF op = "create" THEN FALSE ELSE @],
                      success_handler(op))
  /\ UNCHANGED <<service_vars, train_vars, client_vars, logger_vars>>

\* on_save_error, on_delete_error, on_recategorize_error: a message only
WorkerFails ==
  /\ \E op \in Mutations :
       /\ widget.workers[op] > 0
       /\ widget' = [widget EXCEPT !.workers[op] = @ - 1,
                                   !.last = [handler |-> "on_error", reload |-> "none"]]
  /\ UNCHANGED <<service_vars, train_vars, client_vars, logger_vars>>

WidgetNext ==
  \/ Refresh
  \/ LoadFinishes
  \/ CooldownExpires
  \/ StartWorker
  \/ ShowAddDialog
  \/ SaveTransaction
  \/ CancelDialog
  \/ WorkerSucceeds
  \/ WorkerFails

WidgetSpec == WidgetInit /\ [][WidgetNext]_vars

\* a load worker always emits success or error (every request has a timeout)
\* and a started single-shot timer always fires
WidgetLiveSpec ==
  /\ WidgetInit
  /\ [][WidgetNext]_vars
  /\ WF_vars(LoadFinishes)
  /\ WF_vars(CooldownExpires)

----------------------------------------------------------------------------
(* Definitions the properties are stated with                               *)

TypeOK ==
  /\ model \in {NONE, LOADED}
  /\ vectorizer \in {NONE, LOADED}
  /\ model_metadata \in {NONE, LOADED}
  /\ pc \in {"startup", "serving", "responded"}
  /\ load_returned \in {"not called", "True", "False"}
  /\ response.status \in {0, 200, 400, 404, 500}

\* the thresholds as the claims state them
THREE_TENTHS == Frac(3, 10)
ONE_TENTH == Frac(1, 10)

\* the calls that went through the keyword path and returned
KeywordCalls == { i \in DOMAIN calls : calls[i].keyword_calls = 1 /\ ~calls[i].raised }

\* the keywords of category c whose normalized form is a substring of the
\* normalized description
ExactMatches(c, cleaned_desc) ==
  { k \in DOMAIN KEYWORDS_CLEAN[c] : Contains(KEYWORDS_CLEAN[c][k], cleaned_desc) }

\* the other keywords of category c that contain, or are contained in, a
\* single token of the description
PartialMatches(c, cleaned_desc, words) ==
  { k \in DOMAIN KEYWORDS_CLEAN[c] :
      /\ ~Contains(KEYWORDS_CLEAN[c][k], cleaned_desc)
      /\ \E w \in DOMAIN words :
           \/ Contains(words[w], KEYWORDS_CLEAN[c][k])
           \/ Contains(KEYWORDS_CLEAN[c][k], words[w]) }

\* a category with its final score: (1.0 per exact match + 0.5 per partial
\* match) / number of keywords
FinalScore(c, exact, partial) ==
  [c |-> c, category |-> CATEGORY_KEYWORDS[c].category,
   exact |-> exact, partial |-> partial,
   score |-> Frac(2 * exact + partial, 2 * Len(CATEGORY_KEYWORDS[c].keywords))]

\* every category with its final score for a normalized description
FinalScores(cleaned_desc) ==
  UNION { { FinalScore(c, Cardinality(ExactMatches(c, cleaned_desc)),
                          Cardinality(PartialMatches(c, cleaned_desc, words)))
            : c \in DOMAIN CATEGORY_KEYWORDS }
          : words \in {split(cleaned_desc)} }

\* the final scores of every str description of the model (they depend on
\* the description alone)
FINAL_SCORES ==
  { [description |-> d, finals |-> FinalScores(clean_text(d).text)]
    : d \in { x \in Descriptions : x.kind = "str" } }

\* the final scores for the description of call i
FinalScoresOf(i) ==
  (CHOOSE e \in FINAL_SCORES : e.description = calls[i].description).finals

\* the first category, in lexicon order, with the greatest final score
ArgMax(finals) ==
  CHOOSE e \in finals :
    /\ \A d \in finals : ~FracLess(e.score, d.score)
    /\ \A d \in finals : d.c < e.c => FracLess(d.score, e.score)

\* a result of a batch that carries a classification (not an error record)
IsClassified(item) == "description" \in DOMAIN item

\* the method the claims name for the path that produced a result
MethodOf(via) == IF via = "ml_model" THEN "ml_model" ELSE "keyword_matching"

MakanSiangDiWarteg ==
  Str(<<"m","a","k","a","n"," ","s","i","a","n","g"," ","d","i"," ","w","a","r","t","e","g">>)

----------------------------------------------------------------------------
(* C1 *)

\* C1: categorize_transaction returns the statistical result only when model
\* and vectorizer are both loaded, the adapter returned a category and its
\* confidence is strictly greater than 0.3; whenever the adapter's confidence
\* is 0.3 or lower, the result is the one the keyword path computes.
C1_MLResultOnlyAboveThreshold ==
  \A i \in DOMAIN calls :
    /\ calls[i].via = "ml_model" =>
         /\ model # NONE /\ vectorizer # NONE
         /\ calls[i].ml_calls = 1
         /\ calls[i].ml.category \notin {NONE, ""}
         /\ FracLess(THREE_TENTHS, calls[i].ml.confidence)
         /\ calls[i].category = calls[i].ml.category
         /\ FracEq(calls[i].confidence, calls[i].ml.confidence)
    /\ ~FracLess(THREE_TENTHS, calls[i].ml.confidence) =>
         /\ calls[i].via # "ml_model"
         /\ \A kw \in {keyword_path_of(calls[i].description)} :
              /\ calls[i].raised = kw.raised
              /\ ~calls[i].raised =>
                   /\ calls[i].category = kw.category
                   /\ FracEq(calls[i].confidence, kw.confidence)

\* the adapter returned a category with confidence exactly 0.3 and the
\* keyword path produced the result
C1_Witness ==
  \E i \in DOMAIN calls :
    /\ calls[i].ml_calls = 1
    /\ calls[i].ml.category = "Transportasi"
    /\ FracEq(calls[i].ml.confidence, THREE_TENTHS)
    /\ calls[i].via = "keyword_matching"
    /\ calls[i].keyword_calls = 1

----------------------------------------------------------------------------
(* C2 *)

\* C2: in every /categorize and /categorize/batch result, prediction_method
\* names the path that produced the returned category and confidence:
\* "ml_model" exactly when the statistical result was returned, otherwise
\* "keyword_matching".
C2_MethodNamesThePath ==
  /\ (pc = "responded" /\ request.endpoint = "/categorize" /\ response.status = 200) =>
       response.body.prediction_method = MethodOf(calls[1].via)
  /\ (pc = "responded" /\ request.endpoint = "/categorize/batch"
        /\ response.status = 200) =>
       /\ Len(SelectSeq(response.body.results, IsClassified)) = Len(calls)
       /\ \A k \in DOMAIN calls :
            SelectSeq(response.body.results, IsClassified)[k].prediction_method
              = MethodOf(calls[k].via)

----------------------------------------------------------------------------
(* C3 *)

\* C3: for an empty or absent description categorize_transaction returns
\* "Lainnya" with confidence 0.0 whether or not a model is loaded, and
\* predict_with_ml_model is not invoked for that call.
C3_EmptyDescriptionSkipsML ==
  \A i \in DOMAIN calls :
    calls[i].description \in {Str(<<>>), NoneValue} =>
      /\ ~calls[i].raised
      /\ calls[i].category = "Lainnya"
      /\ FracEq(calls[i].confidence, ZERO_CONFIDENCE)
      /\ calls[i].ml_calls = 0

\* an empty description was categorized while model and vectorizer are loaded
C3_Witness ==
  /\ model = LOADED /\ vectorizer = LOADED
  /\ \E i \in DOMAIN calls :
       /\ calls[i].description = Str(<<>>)
       /\ calls[i].category = "Lainnya"
       /\ calls[i].ml_calls = 0

----------------------------------------------------------------------------
(* C4 *)

\* C4: for a description that contains an exact keyword of exactly one
\* category and no keyword of any other category, the keyword path returns
\* that category, with confidence at least 1/|K| for its keyword list K.
C4_SingleCategoryKeywordWins ==
  \A i \in KeywordCalls :
    \A e \in FinalScoresOf(i) :
      (/\ e.exact > 0
       /\ \A d \in FinalScoresOf(i) : d.c # e.c => d.exact = 0) =>
        /\ calls[i].category = e.category
        /\ ~FracLess(calls[i].confidence, Frac(1, Len(CATEGORY_KEYWORDS[e.c].keywords)))

----------------------------------------------------------------------------
(* C5 *)

\* C5: with no statistical model loaded, "makan siang di warteg" is
\* categorized as "Makanan & Minuman" through the keyword path with a
\* confidence strictly greater than 0.1.
C5_MakanSiangDiWartegIsFood ==
  \A i \in DOMAIN calls :
    (/\ model = NONE \/ vectorizer = NONE
     /\ calls[i].description = MakanSiangDiWarteg) =>
      /\ calls[i].via = "keyword_matching"
      /\ calls[i].category = "Makanan & Minuman"
      /\ FracLess(ONE_TENTH, calls[i].confidence)

----------------------------------------------------------------------------
(* C6 *)

----------------------------------------------------------------------------
(* C7 *)

\* C7: in the keyword path every keyword contributes exactly one of 1.0
\* (normalized keyword is a substring of the normalized description), 0.5
\* (otherwise, it contains or is contained in a single token) or 0; a
\* category's final score is the sum divided by its number of keywords, and
\* the category taken as best has the greatest final score: the confidence
\* returned is the greatest final score, and a category returned above the
\* floor has that score.
C7_KeywordScoring ==
  \A i \in KeywordCalls :
    /\ \A e \in FinalScoresOf(i) : ~FracLess(calls[i].confidence, e.score)
    /\ \E e \in FinalScoresOf(i) : FracEq(calls[i].confidence, e.score)
    /\ ~FracLess(calls[i].confidence, ONE_TENTH) =>
         \E e \in FinalScoresOf(i) :
           /\ e.category = calls[i].category
           /\ FracEq(calls[i].confidence, e.score)

\* a keyword-path call in which the best category has exact and partial
\* matches, and the confidence is (exact + partial / 2) / |K|
C7_Witness ==
  \E i \in KeywordCalls :
    \E e \in FinalScoresOf(i) :
      /\ e.exact > 0
      /\ e.partial > 0
      /\ FracEq(calls[i].confidence, e.score)

----------------------------------------------------------------------------
(* C8 *)

\* C8: when the best final keyword score is below 0.1 the keyword path
\* returns "Lainnya" with that best score as confidence (not 0); when it is
\* 0.1 or more it returns the arg-max category with that score.
C8_FloorKeepsBestScore ==
  \A i \in KeywordCalls :
    \A best \in {ArgMax(FinalScoresOf(i))} :
      IF FracLess(best.score, ONE_TENTH)
      THEN calls[i].category = "Lainnya" /\ FracEq(calls[i].confidence, best.score)
      ELSE calls[i].category = best.category /\ FracEq(calls[i].confidence, best.score)

\* one batch in which a description scored below the floor (with a score
\* above 0) and another reached it with a category other than the catch-all
C8_Witness ==
  /\ \E i \in KeywordCalls :
       /\ calls[i].category = "Lainnya"
       /\ FracLess(ZERO_CONFIDENCE, calls[i].confidence)
       /\ FracLess(calls[i].confidence, ONE_TENTH)
  /\ \E i \in KeywordCalls :
       /\ calls[i].category # "Lainnya"
       /\ ~FracLess(calls[i].confidence, ONE_TENTH)

----------------------------------------------------------------------------
(* C9 *)

\* C9: while model or vectorizer is not loaded, categorize_transaction
\* returns for every description exactly the category and confidence the
\* keyword classifier alone computes for it.
C9_UnavailableEqualsKeyword ==
  (model = NONE \/ vectorizer = NONE) =>
    \A i \in DOMAIN calls :
      \A kw \in {keyword_path(calls[i].description)} :
        /\ calls[i].raised = kw.raised
        /\ ~calls[i].raised =>
             /\ calls[i].category = kw.category
             /\ FracEq(calls[i].confidence, kw.confidence)

\* only the vectorizer is loaded and a description was categorized by keywords
C9_Witness ==
  /\ vectorizer = LOADED /\ model = NONE
  /\ \E i \in KeywordCalls : FracLess(ZERO_CONFIDENCE, calls[i].confidence)

----------------------------------------------------------------------------
(* C10 *)

\* descriptions the adapter is applied to
AdapterInputs == BatchDescriptions \cup {NoneValue, IntValue(<<"5">>)}

\* C10: predict_with_ml_model never raises; it returns (None, 0.0) when the
\* model or the vectorizer is not loaded and when a step of transform /
\* predict / predict_proba throws, and the dispatcher then goes on with the
\* keyword path.
C10_AdapterNeverRaises ==
  /\ \A d \in AdapterInputs, o \in MLOutcomes :
       /\ ~predict_with_ml_model(d, o).raised
       /\ (model = NONE \/ vectorizer = NONE \/ o.fails # "none") =>
            /\ predict_with_ml_model(d, o).category = NONE
            /\ FracEq(predict_with_ml_model(d, o).confidence, ZERO_CONFIDENCE)
  /\ \A i \in DOMAIN calls :
       /\ ~calls[i].ml.raised
       /\ (Truthy(calls[i].description) /\ calls[i].ml.category = NONE) =>
            calls[i].keyword_calls = 1

\* the loaded model threw, the adapter returned (None, 0.0) and the keyword
\* path produced the result
C10_Witness ==
  /\ model = LOADED /\ vectorizer = LOADED
  /\ \E i \in DOMAIN calls :
       /\ calls[i].ml_calls = 1
       /\ calls[i].ml = Unavailable
       /\ calls[i].keyword_calls = 1
       /\ calls[i].via = "keyword_matching"

----------------------------------------------------------------------------
(* C11 *)

\* the labels categorize_transaction can return: a category of the lexicon
\* or a label the trained model predicts
ConcreteCategories ==
  { CategoryNames[c] : c \in DOMAIN CategoryNames } \cup (MLLabels \ {""})

----------------------------------------------------------------------------
(* C12 *)

\* every character of a text is an ASCII letter or whitespace
OnlyLettersAndSpaces(chars) ==
  \A i \in DOMAIN chars : IsAsciiLetter(chars[i]) \/ chars[i] \in Whitespace

----------------------------------------------------------------------------
(* C13 *)

\* lower-case ASCII letters separated by single spaces, with no space at
\* either end
IsNormalForm(chars) ==
  /\ \A i \in DOMAIN chars :
       chars[i] = " " \/ \E l \in DOMAIN LowerCase : chars[i] = LowerCase[l]
  /\ chars # <<>> => (chars[1] # " " /\ chars[Len(chars)] # " ")
  /\ \A i \in 1..(Len(chars) - 1) : ~(chars[i] = " " /\ chars[i + 1] = " ")

\* C13: clean_text is idempotent, clean_text(clean_text(s)) = clean_text(s)
\* for every string s, and its output contains only lower-case ASCII letters
\* separated by single spaces, with no leading or trailing space.
C13_CleanTextIdempotent ==
  /\ (normalized.pass = 1 /\ normalized.original.kind = "str") =>
       /\ ~normalized.out.clean_text.raised
       /\ IsNormalForm(normalized.out.clean_text.text)
  /\ normalized.pass = 2 =>
       /\ ~normalized.out.clean_text.raised
       /\ normalized.out.clean_text.text = raw_text.val
       /\ normalized.out.clean_text.text = clean_text(normalized.original).text

\* clean_text was applied twice to "B-a": "b a" both times
C13_Witness ==
  /\ normalized.pass = 2
  /\ normalized.original = Str(<<"B", "-", "a">>)
  /\ raw_text = Str(<<"b", " ", "a">>)
  /\ normalized.out.clean_text.text = <<"b", " ", "a">>

----------------------------------------------------------------------------
(* C14 *)

\* C14: clean_text never throws: for an empty or absent input it returns
\* the empty string, and every other JSON value that a request supplies as
\* description is mapped to a string rather than raising.
C14_NormalizerNeverRaises ==
  \A i \in DOMAIN calls :
    \A cleaned \in {clean_text(calls[i].description)} :
      /\ ~cleaned.raised
      /\ ~Truthy(calls[i].description) => cleaned.text = <<>>
      /\ calls[i].keyword_calls = 1 => ~calls[i].raised

----------------------------------------------------------------------------
(* C15 *)

\* a batch request whose transactions field is a list
IsBatchOfList ==
  /\ pc = "responded"
  /\ request.endpoint = "/categorize/batch"
  /\ request.body.kind = "object"
  /\ request.body.has_transactions
  /\ request.body.is_list

\* an entry that is not an object or has no description
IsMalformedEntry(entry) == entry.kind # "object" \/ ~entry.has_description

\* C15: for a batch request whose transactions field is a list of n entries
\* the response has exactly n results in input order, results[i].index = i
\* and total_processed = n; an entry that is not an object or has no
\* description yields an error record at its index, and every other entry
\* is fully classified whatever the other entries are.
C15_BatchKeepsEveryEntry ==
  IsBatchOfList =>
    /\ response.status = 200
    /\ Len(response.body.results) = Len(request.body.transactions)
    /\ response.body.total_processed = Len(request.body.transactions)
    /\ \A k \in DOMAIN request.body.transactions :
         /\ response.body.results[k].index = k - 1
         /\ IF IsMalformedEntry(request.body.transactions[k])
            THEN /\ ~IsClassified(response.body.results[k])
                 /\ response.body.results[k].error = "invalid_transaction"
            ELSE /\ DOMAIN response.body.results[k] =
                      {"index", "description", "predicted_category",
                       "confidence", "prediction_method"}
                 /\ response.body.results[k].description
                      = request.body.transactions[k].description

----------------------------------------------------------------------------
(* C16 *)

\* the request answered has a missing or malformed field: no JSON body, no
\* description, a description that is not a string, no transactions, or
\* transactions that are not an array
IsMalformedRequest ==
  /\ pc = "responded"
  /\ \/ /\ request.endpoint = "/categorize"
        /\ \/ request.body.kind # "object"
           \/ ~request.body.has_description
           \/ request.body.description.kind # "str"
     \/ /\ request.endpoint = "/categorize/batch"
        /\ \/ request.body.kind # "object"
           \/ ~request.body.has_transactions
           \/ ~request.body.is_list

\* C16: every request to /categorize or /categorize/batch with a missing or
\* malformed field is answered with a 4xx status and an error code, never
\* with a 5xx.
C16_MalformedRequestIs4xx ==
  IsMalformedRequest =>
    /\ response.status \in 400..499
    /\ "error" \in DOMAIN response.body

----------------------------------------------------------------------------
(* C17 *)

ONE == Frac(1, 1)

\* category_scores of the keyword path for every str description of the
\* model (it depends on the description alone)
CATEGORY_SCORES ==
  { [description |-> d,
     scores |-> Bind({ category_scores(1, cleaned, split(cleaned))
                       : cleaned \in {clean_text(d).text} })]
    : d \in { x \in Descriptions : x.kind = "str" } }

\* C17: the confidence categorize_transaction returns is within [0, 1] on
\* the statistical path, on the keyword path and when the catch-all is
\* returned; on the keyword path no category's summed contributions exceed
\* its number of keywords.
C17_ConfidenceInUnitInterval ==
  /\ \A i \in DOMAIN calls :
       ~calls[i].raised =>
         /\ ~FracLess(calls[i].confidence, ZERO_CONFIDENCE)
         /\ ~FracLess(ONE, calls[i].confidence)
  /\ \A i \in KeywordCalls :
       \A e \in { x \in CATEGORY_SCORES : x.description = calls[i].description } :
         \A scores \in {e.scores} :
           /\ Len(scores) = Len(CATEGORY_KEYWORDS)
           /\ \A c \in DOMAIN scores :
                /\ scores[c].score.num >= 0
                /\ scores[c].score.num <= scores[c].score.den
                /\ scores[c].score.den = 2 * Len(CATEGORY_KEYWORDS[c].keywords)

\* one batch with a statistical result of confidence 1.0 and a keyword
\* result that is the catch-all with a confidence above the floor
C17_Witness ==
  /\ \E i \in DOMAIN calls :
       calls[i].via = "ml_model" /\ FracEq(calls[i].confidence, ONE)
  /\ \E i \in KeywordCalls :
       /\ calls[i].category = "Lainnya"
       /\ FracLess(ONE_TENTH, calls[i].confidence)
       /\ \E x \in CATEGORY_SCORES : x.description = calls[i].description

----------------------------------------------------------------------------
(* C18 *)

\* the response the handler gives when it runs alone, from the request to
\* the response in one step, for the request of thread t and what the loaded
\* model did for it
SequentialResponse(t) ==
  categorize([kind |-> "object", has_description |-> TRUE,
              description |-> threads[t].description],
             threads[t].outcome).response

\* C18: model, vectorizer and model_metadata are written only by
\* load_models at startup, no step of a handler or of a classification call
\* changes them; a process that started without a usable model never enters
\* the statistical path; and whatever the interleaving of concurrent
\* /categorize requests, each gets the response a sequential execution
\* gives it.
C18_ArtifactWrittenOnlyAtStartup ==
  /\ [][pc # "startup" =>
          UNCHANGED <<model, vectorizer, model_metadata, load_returned>>]_vars
  /\ [][(pc # "startup" /\ ~ml_enabled) =>
          (~ml_enabled' /\ \A t \in Threads : threads'[t].at # "line208")]_vars
  /\ [](\A t \in Threads :
          threads[t].at = "responded" =>
            threads[t].response = SequentialResponse(t))

\* with model and vectorizer loaded, one request has been answered from the
\* statistical path while another, whose prediction failed, is in the
\* keyword path
C18_Witness ==
  /\ ml_enabled
  /\ \E t, u \in Threads :
       /\ threads[t].at = "responded"
       /\ threads[t].response.status = 200
       /\ threads[t].response.body.predicted_category = "Transportasi"
       /\ threads[u].at = "line214"
       /\ threads[u].outcome.fails = "predict"

----------------------------------------------------------------------------
(* C19 *)

\* C19: GET /health reports ml_model_status "enabled" exactly when model
\* and vectorizer are both loaded, which are exactly the states in which
\* categorize_transaction attempts the statistical path, and "disabled"
\* otherwise; model_info is present exactly when the metadata was loaded.
C19_HealthReportsStatisticalPath ==
  /\ (pc = "responded" /\ request.endpoint = "/health") =>
       /\ response.status = 200
       /\ response.body.ml_model_status \in {"enabled", "disabled"}
       /\ response.body.ml_model_status = "enabled"
            <=> (model = LOADED /\ vectorizer = LOADED)
       /\ response.body.ml_model_status = "enabled" <=> ml_enabled
       /\ "model_info" \in DOMAIN response.body <=> model_metadata = LOADED
  /\ \A i \in DOMAIN calls :
       Truthy(calls[i].description) =>
         (calls[i].ml_calls = 1 <=> (model = LOADED /\ vectorizer = LOADED))

\* only the model is loaded, with its metadata: /health says "disabled" and
\* carries model_info
C19_Witness ==
  /\ pc = "responded" /\ request.endpoint = "/health"
  /\ model = LOADED /\ vectorizer = NONE /\ model_metadata = LOADED
  /\ response.body.ml_model_status = "disabled"
  /\ "model_info" \in DOMAIN response.body

----------------------------------------------------------------------------
(* C20 *)

\* C20: GET /keywords/<category> returns 200 with the keywords of the
\* category and total_keywords equal to their number when the category is a
\* key of the lexicon, and otherwise 404 with error "category_not_found" and
\* available_categories listing every category of the lexicon.
C20_KeywordsOfCategory ==
  (pc = "responded" /\ request.endpoint = "/keywords") =>
    IF \E c \in DOMAIN CATEGORY_KEYWORDS :
         CATEGORY_KEYWORDS[c].category = request.category
    THEN /\ response.status = 200
         /\ response.body.category = request.category
         /\ \E c \in DOMAIN CATEGORY_KEYWORDS :
              /\ CATEGORY_KEYWORDS[c].category = request.category
              /\ response.body.keywords = CATEGORY_KEYWORDS[c].keywords
         /\ response.body.total_keywords = Len(response.body.keywords)
         /\ response.body.total_keywords > 0
    ELSE /\ response.status = 404
         /\ response.body.error = "category_not_found"
         /\ Len(response.body.available_categories) = Len(CATEGORY_KEYWORDS)
         /\ \A c \in DOMAIN CATEGORY_KEYWORDS :
              response.body.available_categories[c] = CATEGORY_KEYWORDS[c].category

\* GET /keywords/UnknownCategory was answered 404 with the nine categories
C20_Witness ==
  /\ pc = "responded" /\ request.endpoint = "/keywords"
  /\ request.category = "UnknownCategory"
  /\ response.status = 404
  /\ Len(response.body.available_categories) = 9

----------------------------------------------------------------------------
(* C21 *)

\* the run fails because of its data: unsupported source, source file
\* missing or unreadable, required columns missing, no valid row, fewer than
\* 4 valid rows
IsDataFailure(input) ==
  \/ input.data_source \notin {"excel", "xml"}
  \/ input.file # "ok"
  \/ input.data_source = "excel" /\ ~input.has_columns
  \/ input.complete_rows = 0
  \/ input.complete_rows < 4

----------------------------------------------------------------------------
(* C22 *)

\* C22: after logout() has returned, whatever the client state it was called
\* in and whatever the server answered, token is None, the session has no
\* Authorization header and is_authenticated() is False.
C22_LogoutClearsSession ==
  (client_call.op = "logout" /\ ~client_call.raised) =>
    /\ client.token = NoneValue
    /\ client.authorization = NoHeader
    /\ ~is_authenticated(client)

----------------------------------------------------------------------------
(* C23 *)

\* the answers of a failing login: 401, any other status outside 200 and
\* 201, connection error, timeout
IsFailure(reply) == ~IsSuccess(reply)

\* C23: a login answered by 200 or 201 with a token stores that token, and
\* is_authenticated() is True afterwards; a login that fails raises an
\* Exception and leaves the stored token as it was.
C23_LoginStoresTokenOnSuccessOnly ==
  client_call.op = "login" =>
    /\ client_call.raised <=> IsFailure(client_call.reply)
    /\ (/\ IsSuccess(client_call.reply)
        /\ client_call.reply.body.has_token
        /\ client_call.reply.body.token.kind = "str") =>
         /\ client.token = client_call.reply.body.token
         /\ is_authenticated(client)
    /\ client_call.raised => client.token = client_call.before.token

\* a login answered by 401 while token A is stored: it raised, A is kept
C23_Witness ==
  /\ client_call.op = "login"
  /\ client_call.reply.kind = "response"
  /\ client_call.reply.status = 401
  /\ client_call.raised
  /\ client_call.before.token = TOKEN_A
  /\ client.token = TOKEN_A
  /\ is_authenticated(client)

----------------------------------------------------------------------------
(* C24 *)

\* masked is data with every string under a sensitive key replaced by its
\* masked form, every other value kept, and every nested dict treated the
\* same way
RECURSIVE MaskedAsSpecified(_, _)
MaskedAsSpecified(data, masked) ==
  /\ masked.kind = "dict"
  /\ DOMAIN masked.val = DOMAIN data.val
  /\ \A key \in DOMAIN data.val :
       \E value \in {data.val[key]} :
         IF value.kind = "dict" THEN MaskedAsSpecified(value, masked.val[key])
         ELSE IF is_sensitive(key)
         THEN value.kind = "str" => masked.val[key] = masked_value(value)
         ELSE masked.val[key] = value

\* the string secret occurs in a string of value
RECURSIVE Appears(_, _)
Appears(secret, value) ==
  CASE value.kind = "str" -> Contains(secret, value.val)
    [] value.kind = "dict" -> \E key \in DOMAIN value.val : Appears(secret, value.val[key])
    [] value.kind = "list" -> \E i \in DOMAIN value.val : Appears(secret, value.val[i])
    [] OTHER -> FALSE

\* the strings stored in value directly under a key that is sensitive (or,
\* with sensitive FALSE, under a key that is not)
RECURSIVE StringsUnder(_, _)
StringsUnder(value, sensitive) ==
  CASE value.kind = "dict" ->
         UNION {IF value.val[key].kind = "str"
                THEN IF is_sensitive(key) = sensitive THEN {value.val[key].val} ELSE {}
                ELSE StringsUnder(value.val[key], sensitive)
                : key \in DOMAIN value.val}
    [] value.kind = "list" ->
         UNION {StringsUnder(value.val[i], sensitive) : i \in DOMAIN value.val}
    [] OTHER -> {}

\* C24: the masked data holds, for every string under a key containing
\* password, token, secret, key, auth or credential, its masked form (first
\* 3 characters, "***", last 2 when longer than 5, else "***"), holds every
\* other value unchanged, is built the same way inside nested dicts such as
\* user.credentials.{password, token}, and nowhere holds a string that the
\* data has under sensitive keys only.
C24_MasksSecretsAtEveryDepth ==
  log_call.called =>
    /\ MaskedAsSpecified(log_call.data, log_call.masked)
    /\ \A secret \in StringsUnder(log_call.data, TRUE)
                      \ StringsUnder(log_call.data, FALSE) :
         ~Appears(secret, log_call.masked)

----------------------------------------------------------------------------
(* C25 *)

\* C25: once the main window has handled the logout of the dashboard
\* (current_user reset, main window shown), api_client.logout was called and
\* the API client holds no token.
C25_DashboardLogoutEndsSession ==
  app.handled = "logout" =>
    /\ app.current_user = "None"
    /\ client_call.op = "logout"
    /\ client.token = NoneValue

----------------------------------------------------------------------------
(* C26 *)

\* the elements of a sequence
Elements(seq) == {seq[i] : i \in DOMAIN seq}

\* C26: the list that GET /categories answers with has no duplicates,
\* total_categories is the number of distinct categories, and the categories
\* are those of available_categories in the 404 of GET /keywords.
C26_CategoriesListedOnce ==
  (pc = "responded" /\ request.endpoint = "/categories") =>
    /\ response.status = 200
    /\ \A i, j \in DOMAIN response.body.categories :
         response.body.categories[i] = response.body.categories[j] => i = j
    /\ response.body.total_categories = Cardinality(Elements(response.body.categories))
    /\ Elements(response.body.categories)
         = Elements(get_category_keywords("UnknownCategory").body.available_categories)

----------------------------------------------------------------------------
(* C27 *)

\* C27: load_models returns True or False, never raises, and the value is
\* True exactly when both model and vectorizer are loaded afterwards,
\* whatever files are present, absent or unreadable.
C27_LoadModelsReturnsWhatIsLoaded ==
  pc # "startup" =>
    /\ load_returned \in {"True", "False"}
    /\ load_returned = "True" <=> (model # NONE /\ vectorizer # NONE)

----------------------------------------------------------------------------
(* C28 *)

\* C28: in a batch whose transactions field is a list, an entry with a
\* description field whose classification fails never turns the response
\* into a top-level 500: every entry still has its result.
C28_EntryFailureIsConfined ==
  IsBatchOfList =>
    /\ response.status # 500
    /\ Len(response.body.results) = Len(request.body.transactions)

----------------------------------------------------------------------------
(* C29 *)

\* C29: the handler of every successful add, delete and recategorize starts
\* a load, whatever load is running and whether or not the refresh cooldown
\* is active: the reload is never dropped.
C29_MutationAlwaysReloads ==
  widget.last.handler \in {"on_transaction_added", "on_delete_success",
                           "on_recategorize_success"} =>
    widget.last.reload = "started"

----------------------------------------------------------------------------
(* C30 *)

\* at most one load worker is in flight, and the refresh button is enabled
\* only with no load in progress and the cooldown timer inactive
RefreshGuarded ==
  /\ widget.loads <= 1
  /\ widget.refresh_enabled => (widget.loads = 0 /\ ~widget.timer_active)
  /\ widget.loads > 0 <=> widget.refresh_text = "Loading..."

\* C30: at most one load worker is in flight, the refresh button is never
\* enabled while a load is in progress or the cooldown timer is active, and
\* after every started load the refresh button becomes enabled again, once
\* the load has finished and the cooldown has expired, in either order.
C30_RefreshButtonGuardsLoads ==
  /\ []RefreshGuarded
  /\ (widget.loads > 0) ~> widget.refresh_enabled

\* the load has finished first, then the cooldown expired and its slot
\* enabled the button
C30_Witness ==
  /\ widget.last.handler = "_end_refresh_cooldown"
  /\ widget.refresh_enabled
  /\ widget.loads = 0
  /\ ~widget.timer_active

=============================================================================
